---- MODULE Spec2Model ----
(***************************************************************************)
(* The encrypted key vault of the Octra wallet (VaultService) together     *)
(* with the background handler's lock-status check, as a state machine.    *)
(*                                                                         *)
(* Static fields of VaultService, the chrome.storage.local entries the     *)
(* vault reads and writes, and the chrome.storage.session marker are the   *)
(* state.  Every public operation of the service is one action; an         *)
(* operation that throws leaves the state alone and records the error.     *)
(***************************************************************************)
EXTENDS Integers, Sequences, FiniteSets, TLC

VARIABLES
    walletData,        \* VaultService.walletData: NULL or [accounts, nextAccountIndex]
    currentPassword,   \* VaultService.currentPassword: NoPassword or a password
    cachedKey,         \* VaultService.cachedKey: NULL or a derived key
    cachedSalt,        \* VaultService.cachedSalt: NoSalt or a salt
    vault,             \* chrome.storage.local[octra_vault]: NULL or an EncryptedVault
    session,           \* chrome.storage.session[octra_session]: NoPassword or a password
    lastActivity,      \* chrome.storage.local[octra_last_activity]: Undefined or ms
    autoLockTimeout,   \* chrome.storage.local[octra_auto_lock_timeout]: Undefined or minutes
    now,               \* Date.now()
    last,              \* the last operation, its inputs and its outcome
    changedSince,      \* history: a changePassword succeeded and nothing tried to decrypt since
    restorable,        \* history: unlock(correct password) succeeded; no lock, reset or bootstrap since
    everIssued,        \* history: the account indices this wallet ever handed out
    pending            \* the requests being handled: each one's position and locals

vars == << walletData, currentPassword, cachedKey, cachedSalt, vault, session,
           lastActivity, autoLockTimeout, now, last, changedSince, restorable,
           everIssued, pending >>

-----------------------------------------------------------------------------
(* Bounds of the model *)

MaxIndex == 3          \* the index counter stops here in the account specification
MaxSessionIndex == 2   \* the index counter stops here in the vault specification
NumKeys == 1           \* distinct key seeds the user supplies for import
MaxTicks == 3          \* minutes the clock reaches in the vault specification
MaxClockMin == 17      \* minutes the clock reaches in the auto-lock specification
MaxOverLimit == 1      \* indices the counter may pass the account maximum by
MaxInFlight == 2       \* requests the background worker handles at the same time

(* Program constants *)

MAX_ACCOUNTS == 100
DEFAULT_AUTO_LOCK_TIMEOUT == 15

-----------------------------------------------------------------------------
(* Values *)

NULL == [null |-> TRUE]        \* a null object reference
NoPassword == << >>            \* null / undefined / "" password (all falsy)
NoSalt == "null"
Undefined == -1                \* a key absent from chrome.storage.local

MsPerMinute == 60 * 1000

\* A handler: where it stands (pc), the operation and its arguments, the blob
\* it holds (read from storage, or encrypted and not yet stored), its other
\* locals and, once it has answered, the error and the value it answered with.
Handler(pc, op, args, blob, local, err, ret) ==
    [ pc |-> pc, op |-> op, args |-> args, blob |-> blob, local |-> local,
      err |-> err, ret |-> ret ]

Slots == 1 .. MaxInFlight
Idle == Handler("idle", "", << >>, NULL, << >>, "", << >>)
NoRequests == [ slot \in Slots |-> Idle ]

\* Passwords are strings of character codes.
PwA == << 86, 97, 108, 105, 100, 112, 97, 115, 115, 49 >>       \* "Validpass1"
PwB == << 79, 116, 104, 101, 114, 80, 97, 115, 115, 50 >>       \* "OtherPass2"
PwWeak == << 115, 104, 111, 114, 116, 49, 65 >>                  \* "short1A"
Passwords == { PwA, PwB, PwWeak }

Pw8 == << 65, 98, 99, 100, 101, 102, 103, 49 >>                   \* "Abcdefg1"
PwNoUpper == << 97, 108, 108, 108, 111, 119, 101, 114, 99, 97, 115, 101, 49 >>   \* "alllowercase1"
PwNoLower == << 65, 76, 76, 85, 80, 80, 69, 82, 49 >>       \* "ALLUPPER1"
PwNoDigit == << 78, 111, 68, 105, 103, 105, 116, 115, 72, 101, 114, 101 >>            \* "NoDigitsHere"
PolicyPasswords == Passwords \cup { Pw8, PwNoUpper, PwNoLower, PwNoDigit }
ImportPasswords == { PwA, PwWeak, PwNoUpper }

Salts == { "s" \o ToString(i) : i \in 1 .. MaxInFlight + 3 }
Keys == 1 .. NumKeys
CustomNames == { "Savings" }

-----------------------------------------------------------------------------
(* Password policy *)

HasCharIn(password, lo, hi) ==
    \E i \in 1 .. Len(password) : password[i] >= lo /\ password[i] <= hi

\* A policy that rejects a password of exactly the minimum length.
validatePassword_strictLength(password) ==
    IF Len(password) <= 8
    THEN "Password must be at least 8 characters"
    ELSE IF ~HasCharIn(password, 65, 90) \/ ~HasCharIn(password, 97, 122)
            \/ ~HasCharIn(password, 48, 57)
         THEN "Password must contain uppercase, lowercase and numbers"
         ELSE ""

validatePassword(password) ==
    IF Len(password) < 8
    THEN "Password must be at least 8 characters"
    ELSE IF ~HasCharIn(password, 65, 90) \/ ~HasCharIn(password, 97, 122)
            \/ ~HasCharIn(password, 48, 57)
         THEN "Password must contain uppercase, lowercase and numbers"
         ELSE ""

-----------------------------------------------------------------------------
(* Vault encryption.  A derived key is determined by the password and the  *)
(* salt; AES-GCM decryption authenticates, so it succeeds exactly when the *)
(* key is the one the blob was encrypted under.                            *)

deriveKey(password, salt) == [password |-> password, salt |-> salt]

\* A re-encryption that keeps the salt of the blob it replaces.
generateSalt_reused ==
    IF vault # NULL THEN vault.salt ELSE CHOOSE s \in Salts : s # cachedSalt

\* The salts of the blobs the running handlers hold.
SaltsInFlight == { pending[slot].blob.salt : slot \in { t \in Slots : pending[t].blob # NULL } }

\* generateRandomBytes(32): a salt no live blob or cache entry carries.
generateSalt ==
    CHOOSE s \in Salts : /\ s # cachedSalt
                         /\ (vault = NULL \/ s # vault.salt)
                         /\ s \notin SaltsInFlight

encryptData(data, password) ==
    LET salt == generateSalt
    IN  [ salt |-> salt, key |-> deriveKey(password, salt), data |-> data ]

\* decryptData: [ok, data, key]; one key derivation whether or not it succeeds.
decryptData(v, password) ==
    LET key == deriveKey(password, v.salt)
    IN  IF key = v.key
        THEN [ ok |-> TRUE, data |-> v.data, key |-> key ]
        ELSE [ ok |-> FALSE, data |-> NULL, key |-> NULL ]

\* decryptWithKey: the blob's salt is not read, only the key decides.
decryptWithKey(v, key) ==
    IF key = v.key
    THEN [ ok |-> TRUE, data |-> v.data ]
    ELSE [ ok |-> FALSE, data |-> NULL ]

-----------------------------------------------------------------------------
(* Keyring *)

publicKeyToAddress(publicKey) == << "oct", publicKey >>

\* nacl.sign.keyPair.fromSeed: the 64-byte secret is seed || public key.
KeyPairFromSeed(seed) ==
    [ err |-> "", privateKey |-> << seed, seed >>, publicKey |-> seed,
      address |-> publicKeyToAddress(seed) ]

KeyError(msg) == [ err |-> msg, privateKey |-> << >>, publicKey |-> 0, address |-> << >> ]

\* Decoded secret-key bytes: their length, the seed half and the trailing half.
fromSecretKeyBytes(bytes) ==
    IF bytes.length = 32 THEN KeyPairFromSeed(bytes.seed)
    ELSE IF bytes.length = 64
         THEN [ err |-> "", privateKey |-> << bytes.seed, bytes.tail >>,
                publicKey |-> bytes.tail, address |-> publicKeyToAddress(bytes.tail) ]
         ELSE KeyError("Invalid private key length: " \o ToString(bytes.length))

fromPrivateKey(input) ==
    IF input.format = "hex" \/ input.format = "base64"
    THEN fromSecretKeyBytes(input)
    ELSE KeyError("Invalid private key format. Use base64 or hex.")

fromMnemonic(mnemonic) ==
    IF mnemonic.words # 12 /\ mnemonic.words # 24
    THEN KeyError("Mnemonic must be 12 or 24 words")
    ELSE KeyPairFromSeed(mnemonic.seed)

PrivateKeyInputs ==
    { [ format |-> "hex", length |-> 32, seed |-> k, tail |-> k ] : k \in Keys }
    \cup { [ format |-> "garbage", length |-> 0, seed |-> 1, tail |-> 1 ] }

\* A base64 text that decodes to neither 32 nor 64 bytes.
WrongLengthInputs == { [ format |-> "base64", length |-> 31, seed |-> 1, tail |-> 1 ] }

MnemonicInputs ==
    { [ words |-> 12, seed |-> k ] : k \in Keys } \cup { [ words |-> 11, seed |-> 1 ] }

\* nacl.sign.keyPair() / generateMnemonic(): fresh randomness.  A generated
\* seed differs from every seed the user supplies and from the seed generated
\* for any other index of the wallet.
generate(index) == KeyPairFromSeed(NumKeys + 1 + index)

\* generateWithMnemonic: a fresh mnemonic and the key pair derived from it.
generateWithMnemonic(index) ==
    [ mnemonic |-> << "mnemonic", NumKeys + 1 + index >> ] @@ generate(index)

-----------------------------------------------------------------------------
(* Accounts *)

DefaultName(n) == "Account " \o ToString(n)

NewAccount(index, name, kp) ==
    [ index |-> index, name |-> name, address |-> kp.address,
      publicKey |-> kp.publicKey, privateKey |-> kp.privateKey ]

\* A view that hands the whole stored account out.
PublicView_withKey(a) == a

PublicView(a) ==
    [ index |-> a.index, name |-> a.name, address |-> a.address,
      publicKey |-> a.publicKey ]

getAccounts(wd) == [ i \in 1 .. Len(wd.accounts) |-> PublicView(wd.accounts[i]) ]

isUnlocked == walletData # NULL /\ currentPassword # NoPassword

exists == vault # NULL

Indices(wd) == { wd.accounts[i].index : i \in 1 .. Len(wd.accounts) }

-----------------------------------------------------------------------------
(* Auto-lock policy *)

getAutoLockTimeout ==
    IF autoLockTimeout # Undefined THEN autoLockTimeout ELSE DEFAULT_AUTO_LOCK_TIMEOUT

\* An inclusive comparison: locks at exactly the timeout.
shouldAutoLock_inclusive ==
    LET timeout == getAutoLockTimeout
    IN  IF timeout = 0 THEN FALSE
        ELSE IF lastActivity = Undefined \/ lastActivity = 0 THEN FALSE
        ELSE now - lastActivity >= timeout * 60 * 1000

shouldAutoLock ==
    LET timeout == getAutoLockTimeout
    IN  IF timeout = 0 THEN FALSE
        ELSE IF lastActivity = Undefined \/ lastActivity = 0 THEN FALSE
        ELSE now - lastActivity > timeout * 60 * 1000

-----------------------------------------------------------------------------
(* The record of the last operation: its name, the error it threw, the     *)
(* number of password-based key derivations it ran, whether it decrypted   *)
(* with the cached key, the password it was given, whether the wallet was  *)
(* unlocked and what changedSince was when it started, and what it returned. *)

Outcome(op, err, kdf, fast, pw, was, ret) ==
    [ op |-> op, err |-> err, kdf |-> kdf, fast |-> fast, pw |-> pw,
      wasUnlocked |-> was, since |-> changedSince, ret |-> ret ]

Init ==
    /\ walletData = NULL
    /\ currentPassword = NoPassword
    /\ cachedKey = NULL
    /\ cachedSalt = NoSalt
    /\ vault = NULL
    /\ session = NoPassword
    /\ lastActivity = Undefined
    /\ autoLockTimeout = Undefined
    /\ now = MsPerMinute
    /\ changedSince = "no"
    /\ last = Outcome("start", "", 0, FALSE, NoPassword, FALSE, << >>)
    /\ restorable = FALSE
    /\ everIssued = {}
    /\ pending = NoRequests

memory == << walletData, currentPassword, cachedKey, cachedSalt >>
clock == << lastActivity, autoLockTimeout, now >>
history == << changedSince, restorable, everIssued >>

\* An operation that throws before it changed anything.
Throws(op, err, kdf, pw) ==
    /\ last' = Outcome(op, err, kdf, FALSE, pw, isUnlocked, << >>)
    /\ UNCHANGED << memory, vault, session, clock, history, pending >>

-----------------------------------------------------------------------------
(* Wallet bootstrap: create, import, importFromMnemonic *)

\* The shared tail of the three bootstrap operations: one account, index 0,
\* remembered password, save().
\* A bootstrap that sets the record up in memory and never persists it.
Bootstrap_notSaved(op, password, kp) ==
    LET wd == [ accounts |-> << NewAccount(0, DefaultName(1), kp) >>,
                nextAccountIndex |-> 1 ]
    IN  /\ walletData' = wd
        /\ currentPassword' = password
        /\ last' = Outcome(op, "", 0, FALSE, password, isUnlocked,
                           << PublicView(wd.accounts[1]) >>)
        /\ changedSince' = "no"
        /\ restorable' = FALSE
        /\ everIssued' = { 0 }
        /\ pending' = pending
        /\ UNCHANGED << vault, cachedKey, cachedSalt, session, clock >>

Bootstrap(op, password, kp) ==
    LET wd == [ accounts |-> << NewAccount(0, DefaultName(1), kp) >>,
                nextAccountIndex |-> 1 ]
        account == PublicView(wd.accounts[1])
    IN  /\ walletData' = wd
        /\ currentPassword' = password
        /\ vault' = encryptData(wd, password)
        /\ last' = Outcome(op, "", 1, FALSE, password, isUnlocked,
                           IF op = "create"
                           THEN << [ account |-> account, mnemonic |-> kp.mnemonic,
                                     privateKey |-> kp.privateKey ] >>
                           ELSE << account >>)
        /\ changedSince' = "no"
        /\ restorable' = FALSE
        /\ everIssued' = { 0 }
        /\ pending' = pending
        /\ UNCHANGED << cachedKey, cachedSalt, session, clock >>

create(password) ==
    IF validatePassword(password) # ""
    THEN Throws("create", validatePassword(password), 0, password)
    ELSE Bootstrap("create", password, generateWithMnemonic(0))

import(privateKeyInput, password) ==
    IF validatePassword(password) # ""
    THEN Throws("import", validatePassword(password), 0, password)
    ELSE LET kp == fromPrivateKey(privateKeyInput)
         IN  IF kp.err # "" THEN Throws("import", kp.err, 0, password)
             ELSE Bootstrap("import", password, kp)

importFromMnemonic(mnemonic, password) ==
    IF validatePassword(password) # ""
    THEN Throws("importFromMnemonic", validatePassword(password), 0, password)
    ELSE LET kp == fromMnemonic(mnemonic)
         IN  IF kp.err # "" THEN Throws("importFromMnemonic", kp.err, 0, password)
             ELSE Bootstrap("importFromMnemonic", password, kp)

-----------------------------------------------------------------------------
(* unlock / lock *)

\* A pass that caches the derived key before the decryption has succeeded.
UnlockOnce_cachesUnverifiedKey(password, key, salt, v) ==
    IF key # NULL /\ salt = v.salt
    THEN LET d == decryptWithKey(v, key)
         IN  [ ok |-> d.ok, data |-> d.data, key |-> key, salt |-> salt,
               kdf |-> 0, fast |-> TRUE ]
    ELSE LET d == decryptData(v, password)
         IN  [ ok |-> d.ok, data |-> d.data, key |-> deriveKey(password, v.salt),
               salt |-> v.salt, kdf |-> 1, fast |-> FALSE ]

\* One pass through the try block of unlock: [ok, data, key, salt, kdf, fast].
UnlockOnce(password, key, salt, v) ==
    IF key # NULL /\ salt = v.salt
    THEN LET d == decryptWithKey(v, key)
         IN  [ ok |-> d.ok, data |-> d.data, key |-> key, salt |-> salt,
               kdf |-> 0, fast |-> TRUE ]
    ELSE LET d == decryptData(v, password)
         IN  IF d.ok
             THEN [ ok |-> TRUE, data |-> d.data, key |-> d.key, salt |-> v.salt,
                    kdf |-> 1, fast |-> FALSE ]
             ELSE [ ok |-> FALSE, data |-> NULL, key |-> key, salt |-> salt,
                    kdf |-> 1, fast |-> FALSE ]

\* An unlock that runs again only after a failed pass that used the cached key.
UnlockResult_retriesOnlyAfterCache(password, key, salt, v) ==
    LET first == UnlockOnce(password, key, salt, v)
    IN  IF first.ok \/ ~first.fast THEN [ attempts |-> 1 ] @@ first
        ELSE LET retry == UnlockOnce(password, NULL, NoSalt, v)
             IN  [ attempts |-> 2 ] @@ [ retry EXCEPT !.kdf = first.kdf + retry.kdf ]

\* unlock with its catch block: a failed pass with a cached key present drops
\* the cache and calls unlock again.  attempts counts the passes.
RECURSIVE UnlockResult(_, _, _, _)
UnlockResult(password, key, salt, v) ==
    LET pass == UnlockOnce(password, key, salt, v)
    IN  IF pass.ok \/ key = NULL THEN [ attempts |-> 1 ] @@ pass
        ELSE LET again == UnlockResult(password, NULL, NoSalt, v)
             IN  [ again EXCEPT !.kdf = pass.kdf + @, !.attempts = 1 + @ ]

unlock(password) ==
    IF vault = NULL THEN Throws("unlock", "No wallet found", 0, password)
    ELSE LET r == UnlockResult(password, cachedKey, cachedSalt, vault)
         IN  /\ cachedKey' = r.key
             /\ cachedSalt' = r.salt
             /\ changedSince' = "no"
             /\ UNCHANGED << vault, autoLockTimeout, now, everIssued, pending >>
             /\ IF r.ok
                THEN /\ walletData' = r.data
                     /\ currentPassword' = password
                     /\ lastActivity' = now
                     /\ session' = IF password # NoPassword THEN password ELSE session
                     /\ restorable' = (password = vault.key.password)
                     /\ last' = Outcome("unlock", "", r.kdf, r.fast, password,
                                        isUnlocked, getAccounts(r.data))
                ELSE /\ UNCHANGED << walletData, currentPassword, lastActivity,
                                     session, restorable >>
                     /\ last' = Outcome("unlock", "Invalid password", r.kdf, r.fast,
                                        password, isUnlocked, << >>)

\* A lock that also drops the session cache.
lock_dropsCache ==
    /\ walletData' = NULL
    /\ currentPassword' = NoPassword
    /\ session' = NoPassword
    /\ cachedKey' = NULL
    /\ cachedSalt' = NoSalt
    /\ restorable' = FALSE
    /\ last' = Outcome("lock", "", 0, FALSE, NoPassword, isUnlocked, << >>)
    /\ UNCHANGED << vault, clock, changedSince, everIssued, pending >>

lock ==
    /\ walletData' = NULL
    /\ currentPassword' = NoPassword
    /\ session' = NoPassword
    /\ restorable' = FALSE
    /\ last' = Outcome("lock", "", 0, FALSE, NoPassword, isUnlocked, << >>)
    /\ UNCHANGED << cachedKey, cachedSalt, vault, clock, changedSince, everIssued, pending >>

-----------------------------------------------------------------------------
(* Account mutations.  Each mutates the in-memory record, then calls save(). *)

\* save(): throws without a record or a remembered password, else re-encrypts
\* the whole record under the remembered password with a fresh salt.
\* A save that persists the record as it was before the mutation.
save_stale(op, wd, issued, ret) ==
    /\ walletData' = wd
    /\ everIssued' = issued
    /\ pending' = pending
    /\ UNCHANGED << currentPassword, cachedKey, cachedSalt, session, clock,
                    changedSince, restorable >>
    /\ IF wd = NULL \/ currentPassword = NoPassword
       THEN /\ vault' = vault
            /\ last' = Outcome(op, "Cannot save: wallet not loaded or no password",
                               0, FALSE, NoPassword, isUnlocked, << >>)
       ELSE /\ vault' = encryptData(walletData, currentPassword)
            /\ last' = Outcome(op, "", 1, FALSE, NoPassword, isUnlocked, ret)

save(op, wd, issued, ret) ==
    /\ walletData' = wd
    /\ everIssued' = issued
    /\ pending' = pending
    /\ UNCHANGED << currentPassword, cachedKey, cachedSalt, session, clock,
                    changedSince, restorable >>
    /\ IF wd = NULL \/ currentPassword = NoPassword
       THEN /\ vault' = vault
            /\ last' = Outcome(op, "Cannot save: wallet not loaded or no password",
                               0, FALSE, NoPassword, isUnlocked, << >>)
       ELSE /\ vault' = encryptData(wd, currentPassword)
            /\ last' = Outcome(op, "", 1, FALSE, NoPassword, isUnlocked, ret)

\* An append that numbers the new account by the length of the list.
AppendAccount_byLength(op, name, kp) ==
    LET index == Len(walletData.accounts)
        account == NewAccount(index, IF name # "" THEN name ELSE DefaultName(index + 1), kp)
        wd == [ accounts |-> Append(walletData.accounts, account),
                nextAccountIndex |-> walletData.nextAccountIndex + 1 ]
    IN  save(op, wd, everIssued \cup { index }, << PublicView(account) >>)

\* The shared tail of addAccount / importAccount / importAccountFromMnemonic.
AppendAccount(op, name, kp) ==
    LET index == walletData.nextAccountIndex
        account == NewAccount(index, IF name # "" THEN name ELSE DefaultName(index + 1), kp)
        wd == [ accounts |-> Append(walletData.accounts, account),
                nextAccountIndex |-> index + 1 ]
    IN  save(op, wd, everIssued \cup { index }, << PublicView(account) >>)

Addresses(wd) == { wd.accounts[i].address : i \in 1 .. Len(wd.accounts) }

MaximumAccountsError == "Maximum " \o ToString(MAX_ACCOUNTS) \o " accounts allowed"

\* An addAccount that refuses only above the maximum.
addAccount_limitOffByOne(name) ==
    IF walletData = NULL THEN Throws("addAccount", "Wallet is not loaded", 0, NoPassword)
    ELSE IF Len(walletData.accounts) > MAX_ACCOUNTS
         THEN Throws("addAccount", MaximumAccountsError, 0, NoPassword)
         ELSE AppendAccount("addAccount", name, generate(walletData.nextAccountIndex))

addAccount(name) ==
    IF walletData = NULL THEN Throws("addAccount", "Wallet is not loaded", 0, NoPassword)
    ELSE IF Len(walletData.accounts) >= MAX_ACCOUNTS
         THEN Throws("addAccount", MaximumAccountsError, 0, NoPassword)
         ELSE AppendAccount("addAccount", name, generate(walletData.nextAccountIndex))

\* An import without the duplicate-address check.
ImportInto_allowsDuplicate(op, kp, name) ==
    IF walletData = NULL THEN Throws(op, "Wallet is not loaded", 0, NoPassword)
    ELSE IF Len(walletData.accounts) >= MAX_ACCOUNTS
         THEN Throws(op, MaximumAccountsError, 0, NoPassword)
         ELSE IF kp.err # "" THEN Throws(op, kp.err, 0, NoPassword)
         ELSE AppendAccount(op, name, kp)

\* An import that advances the index counter before it parses its input.
ImportInto_consumesIndex(op, kp, name) ==
    IF walletData = NULL THEN Throws(op, "Wallet is not loaded", 0, NoPassword)
    ELSE IF Len(walletData.accounts) >= MAX_ACCOUNTS
         THEN Throws(op, MaximumAccountsError, 0, NoPassword)
         ELSE IF kp.err # ""
              THEN /\ walletData' = [ walletData EXCEPT !.nextAccountIndex = @ + 1 ]
                   /\ last' = Outcome(op, kp.err, 0, FALSE, NoPassword, isUnlocked, << >>)
                   /\ UNCHANGED << currentPassword, cachedKey, cachedSalt, vault, session,
                                   clock, history, pending >>
         ELSE IF kp.address \in Addresses(walletData)
              THEN Throws(op, "This account already exists", 0, NoPassword)
              ELSE AppendAccount(op, name, kp)

ImportInto(op, kp, name) ==
    IF walletData = NULL THEN Throws(op, "Wallet is not loaded", 0, NoPassword)
    ELSE IF Len(walletData.accounts) >= MAX_ACCOUNTS
         THEN Throws(op, MaximumAccountsError, 0, NoPassword)
         ELSE IF kp.err # "" THEN Throws(op, kp.err, 0, NoPassword)
         ELSE IF kp.address \in Addresses(walletData)
              THEN Throws(op, "This account already exists", 0, NoPassword)
              ELSE AppendAccount(op, name, kp)

importAccount(privateKeyInput, name) ==
    ImportInto("importAccount", fromPrivateKey(privateKeyInput), name)

importAccountFromMnemonic(mnemonic, name) ==
    ImportInto("importAccountFromMnemonic", fromMnemonic(mnemonic), name)

\* accounts.findIndex(a => a.index === index): 0 when there is none.
FindIndex(accounts, index) ==
    IF \E i \in 1 .. Len(accounts) : accounts[i].index = index
    THEN CHOOSE i \in 1 .. Len(accounts) :
            /\ accounts[i].index = index
            /\ \A j \in 1 .. i - 1 : accounts[j].index # index
    ELSE 0

\* accounts.splice(at, 1)
Splice(accounts, at) ==
    [ i \in 1 .. Len(accounts) - 1 |-> IF i < at THEN accounts[i] ELSE accounts[i + 1] ]

\* A removal without the last-account guard.
removeAccount_lastToo(index) ==
    IF walletData = NULL THEN Throws("removeAccount", "Wallet is not loaded", 0, NoPassword)
    ELSE LET at == FindIndex(walletData.accounts, index)
         IN  IF at = 0 THEN Throws("removeAccount", "Account not found", 0, NoPassword)
             ELSE save("removeAccount",
                       [ walletData EXCEPT !.accounts = Splice(walletData.accounts, at) ],
                       everIssued, << >>)

removeAccount(index) ==
    IF walletData = NULL THEN Throws("removeAccount", "Wallet is not loaded", 0, NoPassword)
    ELSE IF Len(walletData.accounts) <= 1
         THEN Throws("removeAccount", "Cannot remove the last account", 0, NoPassword)
         ELSE LET at == FindIndex(walletData.accounts, index)
              IN  IF at = 0 THEN Throws("removeAccount", "Account not found", 0, NoPassword)
                  ELSE save("removeAccount",
                            [ walletData EXCEPT !.accounts = Splice(walletData.accounts, at) ],
                            everIssued, << >>)

\* A rename that takes the index for the position in the list.
renameAccount_byPosition(index, name) ==
    IF walletData = NULL THEN Throws("renameAccount", "Wallet is not loaded", 0, NoPassword)
    ELSE LET at == IF index + 1 <= Len(walletData.accounts) THEN index + 1 ELSE 0
         IN  IF at = 0 THEN Throws("renameAccount", "Account not found", 0, NoPassword)
             ELSE save("renameAccount",
                       [ walletData EXCEPT !.accounts[at].name = name ],
                       everIssued, << >>)

renameAccount(index, name) ==
    IF walletData = NULL THEN Throws("renameAccount", "Wallet is not loaded", 0, NoPassword)
    ELSE LET at == FindIndex(walletData.accounts, index)
         IN  IF at = 0 THEN Throws("renameAccount", "Account not found", 0, NoPassword)
             ELSE save("renameAccount",
                       [ walletData EXCEPT !.accounts[at].name = name ],
                       everIssued, << >>)

-----------------------------------------------------------------------------
(* Reading accounts and keys *)

\* An operation that returns a value and changes nothing.
Returns(op, ret) ==
    /\ last' = Outcome(op, "", 0, FALSE, NoPassword, isUnlocked, ret)
    /\ UNCHANGED << memory, vault, session, clock, history, pending >>

\* GET_ACCOUNTS: the handler answers for a locked wallet itself, else
\* returns VaultService.getAccounts().
GET_ACCOUNTS ==
    IF ~isUnlocked THEN Throws("getAccounts", "Wallet is locked", 0, NoPassword)
    ELSE IF walletData = NULL
         THEN Throws("getAccounts", "Wallet is not loaded", 0, NoPassword)
         ELSE Returns("getAccounts", getAccounts(walletData))

\* A getPrivateKey that answers from the persisted blob when nothing is loaded.
getPrivateKey_fromBlob(index) ==
    LET wd == IF walletData # NULL THEN walletData
              ELSE IF vault # NULL THEN vault.data ELSE NULL
    IN  IF wd = NULL THEN Throws("getPrivateKey", "Wallet is not loaded", 0, NoPassword)
        ELSE LET at == FindIndex(wd.accounts, index)
             IN  IF at = 0 THEN Throws("getPrivateKey", "Account not found", 0, NoPassword)
                 ELSE Returns("getPrivateKey",
                              << [ privateKey |-> wd.accounts[at].privateKey,
                                   publicKey |-> wd.accounts[at].publicKey ] >>)

getPrivateKey(index) ==
    IF walletData = NULL THEN Throws("getPrivateKey", "Wallet is not loaded", 0, NoPassword)
    ELSE LET at == FindIndex(walletData.accounts, index)
         IN  IF at = 0 THEN Throws("getPrivateKey", "Account not found", 0, NoPassword)
             ELSE Returns("getPrivateKey",
                          << [ privateKey |-> walletData.accounts[at].privateKey,
                               publicKey |-> walletData.accounts[at].publicKey ] >>)

exportPrivateKey(index) ==
    IF walletData = NULL THEN Throws("exportPrivateKey", "Wallet is not loaded", 0, NoPassword)
    ELSE LET at == FindIndex(walletData.accounts, index)
         IN  IF at = 0 THEN Throws("exportPrivateKey", "Account not found", 0, NoPassword)
             ELSE Returns("exportPrivateKey", << walletData.accounts[at].privateKey >>)

-----------------------------------------------------------------------------
(* reset, verifyPassword, changePassword *)

reset ==
    /\ walletData' = NULL
    /\ vault' = NULL
    /\ last' = Outcome("reset", "", 0, FALSE, NoPassword, isUnlocked, << >>)
    /\ changedSince' = "no"
    /\ restorable' = FALSE
    /\ everIssued' = {}
    /\ pending' = pending
    /\ UNCHANGED << currentPassword, cachedKey, cachedSalt, session, clock >>

\* A verification that trusts a cached key whose salt matches, as unlock does.
verifyPasswordResult_usesCache(password) ==
    IF vault = NULL THEN FALSE
    ELSE IF cachedKey # NULL /\ cachedSalt = vault.salt
         THEN decryptWithKey(vault, cachedKey).ok
         ELSE decryptData(vault, password).ok

verifyPasswordResult(password) ==
    IF vault = NULL THEN FALSE ELSE decryptData(vault, password).ok

verifyPassword(password) ==
    /\ last' = Outcome("verifyPassword", "", IF vault = NULL THEN 0 ELSE 1, FALSE,
                       password, isUnlocked, << verifyPasswordResult(password) >>)
    /\ UNCHANGED << memory, vault, session, clock, history, pending >>

\* A changePassword that does not look at the strength of the new password.
changePassword_skipsPolicy(oldPassword, newPassword) ==
    IF ~verifyPasswordResult(oldPassword)
    THEN Throws("changePassword", "Invalid current password",
                IF vault = NULL THEN 0 ELSE 1, << oldPassword, newPassword >>)
    ELSE /\ vault' = encryptData(decryptData(vault, oldPassword).data, newPassword)
         /\ IF isUnlocked
            THEN /\ currentPassword' = newPassword
                 /\ cachedKey' = NULL
                 /\ cachedSalt' = NoSalt
            ELSE UNCHANGED << currentPassword, cachedKey, cachedSalt >>
         /\ last' = Outcome("changePassword", "", 3, FALSE,
                            << oldPassword, newPassword >>, isUnlocked, << >>)
         /\ changedSince' = "changed"
         /\ UNCHANGED << walletData, session, clock, restorable, everIssued, pending >>

\* A changePassword that leaves the remembered password as it was.
changePassword_keepsRemembered(oldPassword, newPassword) ==
    IF ~verifyPasswordResult(oldPassword)
    THEN Throws("changePassword", "Invalid current password",
                IF vault = NULL THEN 0 ELSE 1, << oldPassword, newPassword >>)
    ELSE IF validatePassword(newPassword) # ""
         THEN Throws("changePassword", validatePassword(newPassword), 1,
                     << oldPassword, newPassword >>)
         ELSE /\ vault' = encryptData(decryptData(vault, oldPassword).data, newPassword)
              /\ IF isUnlocked
                 THEN /\ cachedKey' = NULL
                      /\ cachedSalt' = NoSalt
                      /\ UNCHANGED currentPassword
                 ELSE UNCHANGED << currentPassword, cachedKey, cachedSalt >>
              /\ last' = Outcome("changePassword", "", 3, FALSE,
                                 << oldPassword, newPassword >>, isUnlocked, << >>)
              /\ changedSince' = "changed"
              /\ UNCHANGED << walletData, session, clock, restorable, everIssued, pending >>

changePassword(oldPassword, newPassword) ==
    IF ~verifyPasswordResult(oldPassword)
    THEN Throws("changePassword", "Invalid current password",
                IF vault = NULL THEN 0 ELSE 1, << oldPassword, newPassword >>)
    ELSE IF validatePassword(newPassword) # ""
         THEN Throws("changePassword", validatePassword(newPassword), 1,
                     << oldPassword, newPassword >>)
         ELSE /\ vault' = encryptData(decryptData(vault, oldPassword).data, newPassword)
              /\ IF isUnlocked
                 THEN /\ currentPassword' = newPassword
                      /\ cachedKey' = NULL
                      /\ cachedSalt' = NoSalt
                 ELSE UNCHANGED << currentPassword, cachedKey, cachedSalt >>
              /\ last' = Outcome("changePassword", "", 3, FALSE,
                                 << oldPassword, newPassword >>, isUnlocked, << >>)
              /\ changedSince' = "changed"
              /\ UNCHANGED << walletData, session, clock, restorable, everIssued, pending >>

-----------------------------------------------------------------------------
(* Auto-lock management *)

updateActivity ==
    /\ lastActivity' = now
    /\ last' = Outcome("updateActivity", "", 0, FALSE, NoPassword, isUnlocked, << >>)
    /\ UNCHANGED << memory, vault, session, autoLockTimeout, now, history, pending >>

setAutoLockTimeout(minutes) ==
    /\ autoLockTimeout' = minutes
    /\ last' = Outcome("setAutoLockTimeout", "", 0, FALSE, NoPassword, isUnlocked, << >>)
    /\ UNCHANGED << memory, vault, session, lastActivity, now, history, pending >>

\* CHECK_AUTO_LOCK: the handler returns shouldAutoLock().
checkAutoLock ==
    /\ last' = Outcome("shouldAutoLock", "", 0, FALSE, NoPassword, isUnlocked,
                       << shouldAutoLock >>)
    /\ UNCHANGED << memory, vault, session, clock, history, pending >>

-----------------------------------------------------------------------------
(* Session restore.  The operators take the in-memory fields as parameters *)
(* so that the same code serves a running process and a fresh one.         *)

Mem(wd, cp, ck, cs, sess, kdf, fast, restored) ==
    [ walletData |-> wd, currentPassword |-> cp, cachedKey |-> ck, cachedSalt |-> cs,
      session |-> sess, kdf |-> kdf, fast |-> fast, restored |-> restored ]

\* A restore whose catch block forgets to remove the marker.
tryRestoreSession_keepsMarker(wd, cp, ck, cs) ==
    IF shouldAutoLock
    THEN Mem(wd, cp, NULL, NoSalt, NoPassword, 0, FALSE, FALSE)
    ELSE IF session = NoPassword \/ vault = NULL
    THEN Mem(wd, cp, ck, cs, session, 0, FALSE, FALSE)
    ELSE IF ck # NULL /\ cs = vault.salt
    THEN LET d == decryptWithKey(vault, ck)
         IN  IF d.ok
             THEN Mem(d.data, session, ck, cs, session, 0, TRUE, TRUE)
             ELSE Mem(wd, cp, NULL, NoSalt, session, 0, TRUE, FALSE)
    ELSE LET d == decryptData(vault, session)
         IN  IF d.ok
             THEN Mem(d.data, session, d.key, vault.salt, session, 1, FALSE, TRUE)
             ELSE Mem(wd, cp, NULL, NoSalt, session, 1, FALSE, FALSE)

tryRestoreSession(wd, cp, ck, cs) ==
    IF shouldAutoLock
    THEN Mem(wd, cp, NULL, NoSalt, NoPassword, 0, FALSE, FALSE)
    ELSE IF session = NoPassword \/ vault = NULL
    THEN Mem(wd, cp, ck, cs, session, 0, FALSE, FALSE)
    ELSE IF ck # NULL /\ cs = vault.salt
    THEN LET d == decryptWithKey(vault, ck)
         IN  IF d.ok
             THEN Mem(d.data, session, ck, cs, session, 0, TRUE, TRUE)
             ELSE Mem(wd, cp, NULL, NoSalt, NoPassword, 0, TRUE, FALSE)
    ELSE LET d == decryptData(vault, session)
         IN  IF d.ok
             THEN Mem(d.data, session, d.key, vault.salt, session, 1, FALSE, TRUE)
             ELSE Mem(wd, cp, NULL, NoSalt, NoPassword, 1, FALSE, FALSE)

init(wd, cp, ck, cs) ==
    IF ~exists
    THEN Mem(wd, cp, ck, cs, session, 0, FALSE, FALSE)
    ELSE tryRestoreSession(wd, cp, ck, cs)

\* GET_LOCK_STATUS: restore the session when locked, then lock when the
\* timeout has elapsed.
getLockStatus ==
    LET r == IF exists /\ ~isUnlocked
             THEN init(walletData, currentPassword, cachedKey, cachedSalt)
             ELSE Mem(walletData, currentPassword, cachedKey, cachedSalt, session,
                      0, FALSE, FALSE)
        unlocked == r.walletData # NULL /\ r.currentPassword # NoPassword
        locks == unlocked /\ shouldAutoLock
    IN  /\ walletData' = IF locks THEN NULL ELSE r.walletData
        /\ currentPassword' = IF locks THEN NoPassword ELSE r.currentPassword
        /\ session' = IF locks THEN NoPassword ELSE r.session
        /\ cachedKey' = r.cachedKey
        /\ cachedSalt' = r.cachedSalt
        /\ last' = Outcome("getLockStatus", "", r.kdf, r.fast, NoPassword, isUnlocked,
                           << exists, exists /\ ~(unlocked /\ ~locks) >>)
        /\ changedSince' = IF r.restored /\ changedSince = "changed"
                           THEN "restored" ELSE changedSince
        /\ restorable' = (restorable /\ ~locks)
        /\ UNCHANGED << vault, clock, everIssued, pending >>

\* The service worker is stopped and started again: the static fields are
\* lost, both storage areas survive, and the module's last statement runs
\* VaultService.init().
restart ==
    LET r == init(NULL, NoPassword, NULL, NoSalt)
    IN  /\ walletData' = r.walletData
        /\ currentPassword' = r.currentPassword
        /\ cachedKey' = r.cachedKey
        /\ cachedSalt' = r.cachedSalt
        /\ session' = r.session
        /\ last' = Outcome("restart", "", r.kdf, r.fast, NoPassword, isUnlocked,
                           IF r.restored THEN getAccounts(r.walletData) ELSE << >>)
        /\ changedSince' = IF r.restored /\ changedSince = "changed"
                           THEN "restored" ELSE changedSince
        /\ restorable' = (restorable /\ r.restored)
        /\ UNCHANGED << vault, clock, everIssued, pending >>

\* Time passes.
tick(limit) ==
    /\ now < limit * MsPerMinute
    /\ now' = now + MsPerMinute
    /\ UNCHANGED << memory, vault, session, lastActivity, autoLockTimeout, last, history, pending >>

-----------------------------------------------------------------------------
(* Inputs *)

NameChoices == CustomNames \cup { "" }
GoodPasswords == { PwA, PwB }

\* The index counter is capped to keep the model finite.
BelowCap(cap) == IF walletData = NULL THEN TRUE ELSE walletData.nextAccountIndex < cap

-----------------------------------------------------------------------------
(* The vault specification: locking, unlocking, the session cache, the     *)
(* session marker, password change and the auto-lock clock.  Every account  *)
(* mutation reaches the vault through save(); addAccount stands for them    *)
(* here, and the account specification below runs them all.                 *)

Next ==
    \/ \E password \in Passwords : create(password)
    \/ \E password \in GoodPasswords : unlock(password)
    \/ lock
    \/ BelowCap(MaxSessionIndex) /\ addAccount("")
    \/ reset
    \/ \E old \in GoodPasswords, new \in Passwords : changePassword(old, new)
    \/ updateActivity
    \/ \E minutes \in { 0, 1 } : setAutoLockTimeout(minutes)
    \/ getLockStatus
    \/ restart
    \/ tick(MaxTicks)

Spec == Init /\ [][Next]_vars

-----------------------------------------------------------------------------
(* The account specification: one password, no clock, every account        *)
(* operation with valid and invalid inputs.                                 *)

NextAccounts ==
    \/ create(PwA)
    \/ \E input \in PrivateKeyInputs : import(input, PwA)
    \/ \E m \in MnemonicInputs : importFromMnemonic(m, PwA)
    \/ unlock(PwA)
    \/ lock
    \/ \E name \in NameChoices : BelowCap(MaxIndex) /\ addAccount(name)
    \/ \E input \in PrivateKeyInputs, name \in NameChoices :
            BelowCap(MaxIndex) /\ importAccount(input, name)
    \/ \E m \in MnemonicInputs, name \in NameChoices :
            BelowCap(MaxIndex) /\ importAccountFromMnemonic(m, name)
    \/ \E index \in 0 .. MaxIndex : removeAccount(index)
    \/ \E index \in 0 .. MaxIndex, name \in CustomNames : renameAccount(index, name)
    \/ reset

SpecAccounts == Init /\ [][NextAccounts]_vars

-----------------------------------------------------------------------------
(* The auto-lock specification: the clock, the activity stamp and the       *)
(* timeout setting alone.                                                   *)

NextClock ==
    \/ updateActivity
    \/ \E minutes \in { 0, 1, 2, DEFAULT_AUTO_LOCK_TIMEOUT } : setAutoLockTimeout(minutes)
    \/ checkAutoLock
    \/ tick(MaxClockMin)

SpecClock == Init /\ [][NextClock]_vars

-----------------------------------------------------------------------------
(* The key-access specification: the operations that read accounts and     *)
(* keys next to every operation that returns accounts.                     *)

NextKeys ==
    \/ create(PwA)
    \/ \E input \in PrivateKeyInputs : import(input, PwA)
    \/ \E m \in MnemonicInputs : importFromMnemonic(m, PwA)
    \/ unlock(PwA)
    \/ lock
    \/ BelowCap(MaxSessionIndex) /\ addAccount("")
    \/ \E input \in PrivateKeyInputs \cup WrongLengthInputs :
            BelowCap(MaxSessionIndex) /\ importAccount(input, "")
    \/ \E m \in MnemonicInputs :
            BelowCap(MaxSessionIndex) /\ importAccountFromMnemonic(m, "")
    \/ \E index \in 0 .. MaxSessionIndex : removeAccount(index)
    \/ \E index \in 0 .. MaxSessionIndex, name \in CustomNames : renameAccount(index, name)
    \/ GET_ACCOUNTS
    \/ \E index \in 0 .. MaxSessionIndex : getPrivateKey(index)
    \/ \E index \in 0 .. MaxSessionIndex : exportPrivateKey(index)
    \/ reset

SpecKeys == Init /\ [][NextKeys]_vars

-----------------------------------------------------------------------------
(* The password specification: the password policy, verifyPassword and     *)
(* changePassword with strong and weak passwords of every kind, without    *)
(* the clock.                                                              *)

NextPassword ==
    \/ \E password \in PolicyPasswords : create(password)
    \/ \E input \in PrivateKeyInputs, password \in ImportPasswords : import(input, password)
    \/ \E m \in MnemonicInputs, password \in ImportPasswords :
            importFromMnemonic(m, password)
    \/ \E password \in GoodPasswords : unlock(password)
    \/ lock
    \/ BelowCap(MaxSessionIndex) /\ addAccount("")
    \/ \E password \in Passwords : verifyPassword(password)
    \/ \E old \in GoodPasswords, new \in PolicyPasswords : changePassword(old, new)
    \/ reset

SpecPassword == Init /\ [][NextPassword]_vars

-----------------------------------------------------------------------------
(* The account-limit specification: a wallet one account short of the       *)
(* maximum, as create() followed by MAX_ACCOUNTS - 2 calls of addAccount()  *)
(* leaves it, and the operations that add and remove accounts.              *)

\* The record after create() and n - 1 calls of addAccount().
GrownWallet(n) ==
    [ accounts |-> [ i \in 1 .. n |-> NewAccount(i - 1, DefaultName(i), generate(i - 1)) ],
      nextAccountIndex |-> n ]

InitNearLimit ==
    LET wd == GrownWallet(MAX_ACCOUNTS - 1)
    IN  /\ walletData = wd
        /\ currentPassword = PwA
        /\ cachedKey = NULL
        /\ cachedSalt = NoSalt
        /\ vault = [ salt |-> "s1", key |-> deriveKey(PwA, "s1"), data |-> wd ]
        /\ session = NoPassword
        /\ lastActivity = Undefined
        /\ autoLockTimeout = Undefined
        /\ now = MsPerMinute
        /\ changedSince = "no"
        /\ last = Outcome("addAccount", "", 1, FALSE, NoPassword, TRUE,
                          << PublicView(wd.accounts[MAX_ACCOUNTS - 1]) >>)
        /\ restorable = FALSE
        /\ everIssued = 0 .. MAX_ACCOUNTS - 2
        /\ pending = NoRequests

NextLimit ==
    \/ BelowCap(MAX_ACCOUNTS + MaxOverLimit) /\ addAccount("")
    \/ \E input \in PrivateKeyInputs :
            BelowCap(MAX_ACCOUNTS + MaxOverLimit) /\ importAccount(input, "")
    \/ \E m \in MnemonicInputs :
            BelowCap(MAX_ACCOUNTS + MaxOverLimit) /\ importAccountFromMnemonic(m, "")
    \/ \E index \in 0 .. MaxOverLimit : removeAccount(index)
    \/ unlock(PwA)
    \/ lock

SpecLimit == InitNearLimit /\ [][NextLimit]_vars

-----------------------------------------------------------------------------
(* Properties *)

\* C1: unlock(p) with a password p other than the one the persisted vault is
\* encrypted under fails with "Invalid password", returns no accounts and
\* leaves a locked wallet locked.
C1_WrongPasswordRejected ==
    (last.op = "unlock" /\ vault # NULL /\ last.pw # vault.key.password)
        => /\ last.err = "Invalid password"
           /\ last.ret = << >>
           /\ (~last.wasUnlocked => ~isUnlocked)

\* C2: lock() of an unlocked wallet followed by unlock(correct password)
\* before the auto-lock timeout elapses runs no password-based key derivation.
C2_RelockIsInstant ==
    [][ ( /\ last.op = "lock" /\ last.wasUnlocked
          /\ last'.op = "unlock"
          /\ vault # NULL /\ last'.pw = vault.key.password
          /\ ~shouldAutoLock )
        => last'.kdf = 0 ]_vars

\* C3 as stated: the first unlock after a successful changePassword runs the
\* slow derivation and does not decrypt with a cached key.
C3_NextUnlockIsSlow ==
    (last.op = "unlock" /\ last.since # "no")
        => (last.kdf > 0 /\ ~last.fast)

\* C3 as amended: the first unlock after a successful changePassword runs the
\* slow derivation and does not decrypt with a cached key, unless a session
\* restore has decrypted the re-encrypted vault in between.
C3_NextUnlockIsSlowUnlessRestored ==
    (last.op = "unlock" /\ last.since = "changed")
        => (last.kdf > 0 /\ ~last.fast)

\* C3 witness: an unlock right after a password change, made while the
\* wallet was locked and the cache still held the old key, took the slow path.
C3_Witness ==
    /\ last.op = "unlock" /\ last.since = "changed" /\ last.err = ""
    /\ ~last.wasUnlocked /\ last.kdf = 1 /\ ~last.fast

\* C4: lock() sets the decrypted record and the remembered password to
\* absent and removes the session marker, and leaves the session cache, the
\* persisted blob, the activity timestamp and the timeout setting unchanged.
C4_LockFrame ==
    [][ (last'.op = "lock" /\ now' = now)
        => /\ walletData' = NULL
           /\ currentPassword' = NoPassword
           /\ session' = NoPassword
           /\ cachedKey' = cachedKey
           /\ cachedSalt' = cachedSalt
           /\ vault' = vault
           /\ lastActivity' = lastActivity
           /\ autoLockTimeout' = autoLockTimeout ]_vars

\* C4 witness: lock() ran on an unlocked wallet that had a session marker
\* and a key in the session cache, and the cache is still there.
C4_Witness ==
    /\ last.op = "lock" /\ last.wasUnlocked
    /\ cachedKey # NULL /\ cachedSalt = vault.salt
    /\ lastActivity # Undefined /\ autoLockTimeout # Undefined

\* C5: a status check that runs after the auto-lock timeout has elapsed
\* leaves the wallet locked, the session marker absent and the session
\* cache empty, whether the wallet was unlocked or locked before.
C5_StatusCheckForceLocks ==
    [][ (last'.op = "getLockStatus" /\ now' = now /\ shouldAutoLock)
        => /\ ~isUnlocked'
           /\ session' = NoPassword
           /\ cachedKey' = NULL
           /\ cachedSalt' = NoSalt ]_vars

\* C6: shouldAutoLock() is false when the timeout is 0 or no activity is
\* recorded, and otherwise true exactly when now - lastActivity exceeds the
\* timeout in minutes; an unset timeout counts as 15 minutes.
C6_ShouldAutoLock ==
    [][ (last'.op = "shouldAutoLock" /\ UNCHANGED clock)
        => LET minutes == IF autoLockTimeout = Undefined THEN 15 ELSE autoLockTimeout
           IN  last'.ret[1] = ( /\ minutes # 0
                                /\ lastActivity # Undefined
                                /\ now - lastActivity > minutes * 60000 ) ]_vars

\* C6 witness: with no timeout stored, a check more than 15 minutes after
\* the last activity answered true.
C6_Witness ==
    /\ last.op = "shouldAutoLock" /\ last.ret = << TRUE >>
    /\ autoLockTimeout = Undefined
    /\ now - lastActivity = 16 * 60000

\* C7: when init() runs with a session marker whose password does not
\* decrypt the persisted blob, it raises no error, the wallet stays locked
\* (no record and no remembered password) and the marker is removed.
C7_StaleMarkerIgnored ==
    [][ ( /\ now' = now
          /\ \/ last'.op = "restart"
             \/ last'.op = "getLockStatus" /\ ~isUnlocked
          /\ vault # NULL
          /\ session # NoPassword /\ session # vault.key.password )
        => /\ last'.err = ""
           /\ walletData' = NULL
           /\ currentPassword' = NoPassword
           /\ session' = NoPassword ]_vars

\* C7 witness: a start of the process tried the marker's password on the
\* blob (one derivation), failed, and left the wallet locked without marker.
C7_Witness ==
    /\ last.op = "restart" /\ last.kdf = 1 /\ last.err = ""
    /\ vault # NULL /\ walletData = NULL /\ currentPassword = NoPassword
    /\ session = NoPassword

\* C8: after unlock(correct password), with no lock, reset or elapsed
\* timeout since, a restart followed by init() leaves the wallet unlocked
\* with the same accounts.
C8_RestartRestores ==
    [][ (restorable /\ last'.op = "restart" /\ now' = now /\ ~shouldAutoLock)
        => /\ isUnlocked'
           /\ walletData'.accounts = walletData.accounts ]_vars

\* C9: after reset() no persisted blob exists, the wallet is locked, and the
\* decrypted record, the remembered password and the cached key are absent.
C9_ResetClearsEverything ==
    last.op = "reset"
        => /\ vault = NULL
           /\ ~isUnlocked
           /\ walletData = NULL
           /\ currentPassword = NoPassword
           /\ cachedKey = NULL

\* The wallet record as far as it exists: in memory, else in the blob.
CurrentRecord ==
    IF walletData # NULL THEN walletData
    ELSE IF vault # NULL THEN vault.data ELSE NULL

IndicesAreSound(wd) ==
    /\ \A i, j \in 1 .. Len(wd.accounts) :
          i # j => wd.accounts[i].index # wd.accounts[j].index
    /\ \A i \in 1 .. Len(wd.accounts) : wd.accounts[i].index < wd.nextAccountIndex

\* C10: within one wallet account indices are pairwise distinct and below
\* nextAccountIndex, nextAccountIndex never decreases, and a newly added
\* account gets an index no current or removed account of the wallet had.
C10_IndicesNeverReused ==
    /\ [](walletData # NULL => IndicesAreSound(walletData))
    /\ [](vault # NULL => IndicesAreSound(vault.data))
    /\ [][ ( /\ CurrentRecord # NULL /\ CurrentRecord' # NULL
              /\ last'.op \notin { "create", "import", "importFromMnemonic" } )
            => CurrentRecord'.nextAccountIndex >= CurrentRecord.nextAccountIndex ]_vars
    /\ [][ ( /\ last'.op \in { "addAccount", "importAccount", "importAccountFromMnemonic" }
              /\ last'.err = "" )
            => /\ last'.ret[1].index \notin everIssued
               /\ last'.ret[1].index \notin Indices(walletData)
               /\ last'.ret[1].index \in Indices(walletData') ]_vars

\* C10 witness: an account was added after a removal, and its index is
\* above the removed one, which no account holds.
C10_Witness ==
    /\ last.op = "addAccount" /\ last.err = "" /\ walletData # NULL
    /\ \E i \in everIssued :
          i < last.ret[1].index /\ i \notin Indices(walletData)

\* C11: removeAccount on a loaded wallet fails with "Cannot remove the last
\* account" when the wallet holds exactly one account and with "Account not
\* found" when no account has the given index (the last-account check comes
\* first); a failed removal leaves the record in memory and the persisted
\* blob unchanged, and a loaded wallet always holds at least one account.
C11_RemoveAccountErrors ==
    /\ [](walletData # NULL => Len(walletData.accounts) >= 1)
    /\ [][ \A index \in 0 .. MaxIndex :
              (last'.op = "removeAccount" /\ walletData # NULL /\ removeAccount(index))
                  => LET n == Len(walletData.accounts)
                         absent == index \notin Indices(walletData)
                     IN  /\ n = 1 => last'.err = "Cannot remove the last account"
                         /\ (n > 1 /\ absent) => last'.err = "Account not found"
                         /\ (n > 1 /\ ~absent) => last'.err = ""
                         /\ last'.err # "" => (walletData' = walletData /\ vault' = vault)
          ]_vars

\* C11 witness: a removal was refused on a wallet with a single account,
\* after an earlier removal had succeeded, and the account is still there.
C11_Witness ==
    /\ last.op = "removeAccount" /\ last.err = "Cannot remove the last account"
    /\ walletData # NULL /\ Len(walletData.accounts) = 1
    /\ Cardinality(everIssued) > 1

\* C12: a wallet never holds more than MAX_ACCOUNTS (100) accounts, in
\* memory or in the blob; addAccount, importAccount and
\* importAccountFromMnemonic on a wallet that holds the maximum fail with
\* "Maximum 100 accounts allowed" and leave the account list,
\* nextAccountIndex and the persisted blob unchanged.
C12_AccountLimit ==
    /\ [](walletData # NULL => Len(walletData.accounts) <= 100)
    /\ [](vault # NULL => Len(vault.data.accounts) <= 100)
    /\ [][ ( /\ walletData # NULL /\ Len(walletData.accounts) = 100
              /\ last'.op \in { "addAccount", "importAccount", "importAccountFromMnemonic" } )
            => /\ last'.err = "Maximum 100 accounts allowed"
               /\ walletData' = walletData
               /\ vault' = vault ]_vars

\* C12 witness: an import into a wallet of 100 accounts was refused.
C12_Witness ==
    /\ last.op = "importAccount" /\ last.err = "Maximum 100 accounts allowed"
    /\ walletData # NULL /\ Len(walletData.accounts) = 100

AddressesAreDistinct(wd) ==
    \A i, j \in 1 .. Len(wd.accounts) :
        i # j => wd.accounts[i].address # wd.accounts[j].address

\* C13: importAccount and importAccountFromMnemonic fail with "This account
\* already exists" when the derived address belongs to an account of the
\* wallet, leaving the account list, nextAccountIndex and the blob
\* unchanged; no two accounts of a wallet share an address.
C13_DuplicateRejected ==
    /\ [](walletData # NULL => AddressesAreDistinct(walletData))
    /\ [](vault # NULL => AddressesAreDistinct(vault.data))
    /\ [][ \A name \in NameChoices :
              /\ \A input \in PrivateKeyInputs :
                    ( /\ last'.op = "importAccount"
                      /\ walletData # NULL /\ importAccount(input, name)
                      /\ fromPrivateKey(input).err = ""
                      /\ fromPrivateKey(input).address \in Addresses(walletData) )
                    => /\ last'.err = "This account already exists"
                       /\ walletData' = walletData /\ vault' = vault
              /\ \A m \in MnemonicInputs :
                    ( /\ last'.op = "importAccountFromMnemonic"
                      /\ walletData # NULL /\ importAccountFromMnemonic(m, name)
                      /\ fromMnemonic(m).err = ""
                      /\ fromMnemonic(m).address \in Addresses(walletData) )
                    => /\ last'.err = "This account already exists"
                       /\ walletData' = walletData /\ vault' = vault
          ]_vars

\* C13 witness: a mnemonic whose address the wallet already held, next to
\* other accounts, was refused.
C13_Witness ==
    /\ last.op = "importAccountFromMnemonic" /\ last.err = "This account already exists"
    /\ walletData # NULL /\ Len(walletData.accounts) >= 2

PublicFields == { "index", "name", "address", "publicKey" }

ReturnsAccountList == { "getAccounts", "unlock", "restart" }
ReturnsOneAccount ==
    { "addAccount", "importAccount", "importAccountFromMnemonic", "import",
      "importFromMnemonic" }
ReturnsKeys == { "create", "getPrivateKey", "exportPrivateKey" }

\* C14: no account returned by getAccounts, unlock, addAccount,
\* importAccount, importAccountFromMnemonic, import or importFromMnemonic
\* carries a privateKey field; only create, getPrivateKey and
\* exportPrivateKey return a private key, every other operation returns
\* nothing at all.
C14_NoPrivateKeyReturned ==
    /\ last.op \in ReturnsAccountList
          => \A i \in 1 .. Len(last.ret) : DOMAIN last.ret[i] = PublicFields
    /\ (last.op \in ReturnsOneAccount /\ last.err = "")
          => (Len(last.ret) = 1 /\ DOMAIN last.ret[1] = PublicFields)
    /\ (last.op \in ReturnsOneAccount /\ last.err # "") => last.ret = << >>
    /\ last.op \notin (ReturnsAccountList \cup ReturnsOneAccount \cup ReturnsKeys)
          => last.ret = << >>

\* C14 witness: an imported account came back with its four public fields
\* while the stored account holds the private key.
C14_Witness ==
    /\ last.op = "importAccount" /\ last.err = ""
    /\ DOMAIN last.ret[1] = PublicFields
    /\ \E i \in 1 .. Len(walletData.accounts) :
          /\ walletData.accounts[i].index = last.ret[1].index
          /\ "privateKey" \in DOMAIN walletData.accounts[i]

\* C15: while the wallet is locked, getAccounts, addAccount, importAccount,
\* importAccountFromMnemonic, removeAccount, renameAccount, getPrivateKey
\* and exportPrivateKey fail with the wallet-locked error ("Wallet is not
\* loaded", or "Wallet is locked" from the handler), return nothing and
\* change neither the in-memory fields nor the stored blob or marker.
C15_LockedOperationsFail ==
    [][ ( /\ ~isUnlocked
          /\ last'.op \in { "getAccounts", "addAccount", "importAccount",
                             "importAccountFromMnemonic", "removeAccount",
                             "renameAccount", "getPrivateKey", "exportPrivateKey" } )
        => /\ last'.err \in { "Wallet is not loaded", "Wallet is locked" }
           /\ last'.ret = << >>
           /\ UNCHANGED << walletData, currentPassword, cachedKey, cachedSalt,
                           vault, session >> ]_vars

\* C15 witness: exportPrivateKey was refused on a wallet that had been
\* unlocked and locked again, its blob and cached key still in place.
C15_Witness ==
    /\ last.op = "exportPrivateKey" /\ last.err = "Wallet is not loaded"
    /\ ~isUnlocked /\ vault # NULL /\ cachedKey # NULL

\* C16: verifyPassword(p) raises nothing, returns true exactly when the
\* persisted blob exists and is encrypted under p, and leaves the record,
\* the remembered password, the session cache, the session marker and the
\* blob unchanged.
C16_VerifyPassword ==
    [][ last'.op = "verifyPassword"
          => /\ last'.err = ""
             /\ last'.ret = << IF vault = NULL THEN FALSE
                                ELSE last'.pw = vault.key.password >>
             /\ UNCHANGED << walletData, currentPassword, cachedKey, cachedSalt,
                             session, vault >> ]_vars

\* C16 witness: a wrong password was answered with false while the session
\* cache held the key of the blob.
C16_Witness ==
    /\ last.op = "verifyPassword" /\ last.ret = << FALSE >>
    /\ vault # NULL /\ last.pw # vault.key.password /\ Len(last.pw) >= 8
    /\ cachedKey = vault.key /\ cachedSalt = vault.salt

\* The password policy as the specification words it.
Accepts(p) ==
    /\ Len(p) >= 8
    /\ \E i \in 1 .. Len(p) : p[i] \in 65 .. 90
    /\ \E i \in 1 .. Len(p) : p[i] \in 97 .. 122
    /\ \E i \in 1 .. Len(p) : p[i] \in 48 .. 57

PolicyErrors ==
    { "Password must be at least 8 characters",
      "Password must contain uppercase, lowercase and numbers" }

\* C17: changePassword(old, new) fails when old does not decrypt the vault
\* or new violates the password policy, and a failed changePassword leaves
\* the persisted blob, the remembered password and the session cache
\* unchanged.
C17_FailedChangeIsHarmless ==
    [][ last'.op = "changePassword"
          => LET old == last'.pw[1]
                 new == last'.pw[2]
             IN  /\ (vault = NULL \/ ~Accepts(new)) => last'.err # ""
                 /\ (vault # NULL /\ old # vault.key.password) => last'.err # ""
                 /\ last'.err # ""
                       => UNCHANGED << vault, currentPassword, cachedKey, cachedSalt,
                                       walletData, session >> ]_vars

\* C17 witness: a change to a weak password was refused on an unlocked
\* wallet whose session cache held a key, and the blob is still under the
\* old password.
C17_Witness ==
    /\ last.op = "changePassword" /\ last.err \in PolicyErrors
    /\ isUnlocked /\ cachedKey # NULL /\ vault # NULL
    /\ vault.key.password = last.pw[1]

C20_ValidationPrecedesCrypto ==
    ( /\ last.op \in { "create", "import", "importFromMnemonic", "changePassword" }
      /\ last.err \in PolicyErrors )
        => last.kdf = 0

\* C21: after create(P), import(key, P) or importFromMnemonic(m, P) returns,
\* the wallet holds exactly one account, with index 0, and nextAccountIndex
\* 1; it is unlocked with P as remembered password; and a persisted blob
\* exists that decrypts under P to that record.
C21_BootstrapOutcome ==
    [][ (last'.op \in { "create", "import", "importFromMnemonic" } /\ last'.err = "")
        => /\ Len(walletData'.accounts) = 1
           /\ walletData'.accounts[1].index = 0
           /\ walletData'.nextAccountIndex = 1
           /\ isUnlocked'
           /\ currentPassword' = last'.pw
           /\ vault' # NULL
           /\ deriveKey(last'.pw, vault'.salt) = vault'.key
           /\ vault'.data = walletData' ]_vars

\* C21 witness: a wallet was imported from a mnemonic, with one account of
\* index 0, while the session cache still held a key of an earlier wallet.
C21_Witness ==
    /\ last.op = "importFromMnemonic" /\ last.err = ""
    /\ Len(walletData.accounts) = 1 /\ walletData.accounts[1].index = 0
    /\ vault # NULL /\ vault.data = walletData /\ vault.key.password = last.pw
    /\ cachedKey # NULL

\* C22: while the wallet is unlocked the persisted blob holds exactly the
\* record in memory; lock() leaves the blob alone; and unlock(P) right after
\* the lock of an unlocked wallet, with P the password the blob is
\* encrypted under, succeeds and returns the accounts of that record, in
\* the same order with the same index, name, address and publicKey.
C22_LockUnlockRoundTrip ==
    /\ [](isUnlocked => (vault # NULL /\ vault.data = walletData))
    /\ [][ last'.op = "lock" => vault' = vault ]_vars
    /\ [][ ( /\ last.op = "lock" /\ last.wasUnlocked
              /\ last'.op = "unlock"
              /\ vault # NULL /\ last'.pw = vault.key.password )
            => /\ last'.err = ""
               /\ last'.ret = getAccounts(vault.data)
               /\ walletData' = vault.data ]_vars

\* C22 witness: a wallet that got a second account was locked and then
\* unlocked by the slow path, and both accounts came back.
C22_Witness ==
    /\ last.op = "unlock" /\ last.err = "" /\ ~last.wasUnlocked /\ last.kdf = 1
    /\ Len(last.ret) = 2 /\ last.ret = getAccounts(walletData)

-----------------------------------------------------------------------------
(* JavaScript numbers.  A finite number is (-1)^neg * m * 2^e, where m is   *)
(* a natural number of at most Precision bits; NaN is a value of its own.   *)
(* m is wider than the integers of the checker, so it is held as a          *)
(* little-endian sequence of limbs (m[1] is the lowest), without leading    *)
(* zero limbs.  The magnitudes used here are far from the subnormal and     *)
(* overflow ranges of a double.                                             *)

Precision == 53
LimbBits == 12
Base == 2 ^ LimbBits

NaN == [ nan |-> TRUE, neg |-> FALSE, m |-> << >>, e |-> 0 ]

RECURSIVE ToLimbs(_)
ToLimbs(n) == IF n = 0 THEN << >> ELSE << n % Base >> \o ToLimbs(n \div Base)

RECURSIVE FromLimbs(_)
FromLimbs(a) == IF a = << >> THEN 0 ELSE a[1] + Base * FromLimbs(Tail(a))

RECURSIVE Trim(_)
Trim(a) ==
    IF a = << >> \/ a[Len(a)] # 0 THEN a ELSE Trim(SubSeq(a, 1, Len(a) - 1))

RECURSIVE BitLen(_)
BitLen(n) == IF n = 0 THEN 0 ELSE 1 + BitLen(n \div 2)

WideBitLen(a) == IF a = << >> THEN 0 ELSE (Len(a) - 1) * LimbBits + BitLen(a[Len(a)])

RECURSIVE AddWithCarry(_, _, _)
AddWithCarry(a, b, c) ==
    IF a = << >> /\ b = << >> THEN (IF c = 0 THEN << >> ELSE << c >>)
    ELSE LET s == (IF a = << >> THEN 0 ELSE a[1]) + (IF b = << >> THEN 0 ELSE b[1]) + c
         IN  << s % Base >>
                 \o AddWithCarry(IF a = << >> THEN a ELSE Tail(a),
                                 IF b = << >> THEN b ELSE Tail(b), s \div Base)

Add(a, b) == AddWithCarry(a, b, 0)

\* a * k for 0 <= k <= Base
RECURSIVE MulSmallWithCarry(_, _, _)
MulSmallWithCarry(a, k, c) ==
    IF a = << >> THEN ToLimbs(c)
    ELSE LET p == a[1] * k + c
         IN  << p % Base >> \o MulSmallWithCarry(Tail(a), k, p \div Base)

MulSmall(a, k) == Trim(MulSmallWithCarry(a, k, 0))

RECURSIVE Mul(_, _)
Mul(a, b) ==
    IF a = << >> \/ b = << >> THEN << >>
    ELSE Add(MulSmall(a, b[1]), Trim(<< 0 >> \o Mul(a, Tail(b))))

\* Quotient and remainder of a by d, for 0 < d <= Base
RECURSIVE DivSmallUntrimmed(_, _)
DivSmallUntrimmed(a, d) ==
    IF a = << >> THEN [ q |-> << >>, r |-> 0 ]
    ELSE LET hi == DivSmallUntrimmed(Tail(a), d)
             p == hi.r * Base + a[1]
         IN  [ q |-> << p \div d >> \o hi.q, r |-> p % d ]

DivSmall(a, d) ==
    LET qr == DivSmallUntrimmed(a, d) IN [ q |-> Trim(qr.q), r |-> qr.r ]

\* a * 2^k
ShiftLeft(a, k) ==
    IF a = << >> THEN << >>
    ELSE [ i \in 1 .. k \div LimbBits |-> 0 ] \o MulSmall(a, 2 ^ (k % LimbBits))

\* a \div 2^k, and whether a nonzero remainder was dropped
ShiftRight(a, k) ==
    LET limbs == IF k \div LimbBits > Len(a) THEN Len(a) ELSE k \div LimbBits
        qr == DivSmall(SubSeq(a, limbs + 1, Len(a)), 2 ^ (k % LimbBits))
    IN  [ q |-> qr.q,
          sticky |-> qr.r # 0 \/ \E i \in 1 .. limbs : a[i] # 0 ]

\* a < b
Less(a, b) ==
    \/ Len(a) < Len(b)
    \/ /\ Len(a) = Len(b)
       /\ \E i \in 1 .. Len(a) :
              /\ a[i] < b[i]
              /\ \A j \in i + 1 .. Len(a) : a[j] = b[j]

\* Round to nearest, ties to even: the exact value is (m + f) * 2^e, where
\* the fraction f is in (0,1) when sticky and 0 otherwise.
RoundToDouble(neg, m, e, sticky) ==
    LET extra == WideBitLen(m) - Precision
    IN  IF extra <= 0 THEN [ nan |-> FALSE, neg |-> neg, m |-> m, e |-> e ]
        ELSE LET low == ShiftRight(m, extra - 1)
                 kept == DivSmall(low.q, 2)
                 up == kept.r = 1 /\ (sticky \/ low.sticky \/ kept.q[1] % 2 = 1)
             IN  [ nan |-> FALSE, neg |-> neg,
                   m |-> IF up THEN Add(kept.q, << 1 >>) ELSE kept.q,
                   e |-> e + extra ]

\* a \div 10^n, and whether a nonzero remainder was dropped
RECURSIVE DivPow10(_, _)
DivPow10(a, n) ==
    IF n = 0 THEN [ q |-> a, sticky |-> FALSE ]
    ELSE LET qr == DivSmall(a, 10)
             rest == DivPow10(qr.q, n - 1)
         IN  [ q |-> rest.q, sticky |-> rest.sticky \/ qr.r # 0 ]

\* The number a decimal literal denotes: the double nearest to
\* digits / 10^scale.
FromDecimal(neg, digits, scale) ==
    IF digits = 0 THEN [ nan |-> FALSE, neg |-> neg, m |-> << >>, e |-> 0 ]
    ELSE LET k == Precision + 2 + BitLen(10 ^ scale) - BitLen(digits)
             qs == DivPow10(ShiftLeft(ToLimbs(digits), k), scale)
         IN  RoundToDouble(neg, qs.q, 0 - k, qs.sticky)

FromLiteral(lit) ==
    IF lit.nan THEN NaN ELSE FromDecimal(lit.neg, lit.digits, lit.scale)

\* x * y
Times(x, y) ==
    IF x.nan \/ y.nan THEN NaN
    ELSE RoundToDouble(x.neg # y.neg, Mul(x.m, y.m), x.e + y.e, FALSE)

\* x + y, for operands of one sign
Plus(x, y) ==
    IF x.nan \/ y.nan THEN NaN
    ELSE LET e == IF x.e < y.e THEN x.e ELSE y.e
         IN  RoundToDouble(x.neg, Add(ShiftLeft(x.m, x.e - e), ShiftLeft(y.m, y.e - e)),
                           e, FALSE)

IsZero(x) == ~x.nan /\ x.m = << >>

\* x < y; every comparison with NaN is false
LessThan(x, y) ==
    IF x.nan \/ y.nan THEN FALSE
    ELSE IF IsZero(x) /\ IsZero(y) THEN FALSE
    ELSE IF IsZero(x) THEN ~y.neg
    ELSE IF IsZero(y) THEN x.neg
    ELSE IF x.neg # y.neg THEN x.neg
    ELSE LET e == IF x.e < y.e THEN x.e ELSE y.e
             a == ShiftLeft(x.m, x.e - e)
             b == ShiftLeft(y.m, y.e - e)
         IN  IF x.neg THEN Less(b, a) ELSE Less(a, b)

\* Math.floor
MathFloor(x) ==
    IF x.nan \/ x.e >= 0 THEN x
    ELSE LET whole == ShiftRight(x.m, 0 - x.e)
         IN  [ nan |-> FALSE, neg |-> x.neg,
               m |-> IF x.neg /\ whole.sticky THEN Add(whole.q, << 1 >>) ELSE whole.q,
               e |-> 0 ]

\* String(x) of an integral number below 2^31
IntegerToString(x) ==
    IF x.nan THEN "NaN"
    ELSE LET n == FromLimbs(ShiftLeft(x.m, x.e))
         IN  IF x.neg /\ n # 0 THEN "-" \o ToString(n) ELSE ToString(n)

\* String(ms / 1000) of a whole number of milliseconds: the shortest decimal
\* that reads back as the same double has at most three fraction digits.
SecondsToString(ms) ==
    LET whole == ToString(ms \div 1000)
        f == ms % 1000
    IN  IF f = 0 THEN whole
        ELSE IF f % 100 = 0 THEN whole \o "." \o ToString(f \div 100)
        ELSE IF f % 10 = 0
             THEN whole \o "." \o ToString(f \div 100) \o ToString((f \div 10) % 10)
             ELSE whole \o "." \o ToString(f \div 100) \o ToString((f \div 10) % 10)
                        \o ToString(f % 10)

-----------------------------------------------------------------------------
(* TransactionBuilder *)

TOKEN_DECIMALS == 6
ADDRESS_PREFIX == "oct"

\* The fee of a tier is the double its decimal literal denotes.
FEE_TIERS ==
    [ LOW    |-> [ ou |-> 10000, fee |-> FromDecimal(FALSE, 1, 3) ],
      MEDIUM |-> [ ou |-> 20000, fee |-> FromDecimal(FALSE, 2, 3) ],
      HIGH   |-> [ ou |-> 50000, fee |-> FromDecimal(FALSE, 5, 3) ] ]

FeeTierNames == { "LOW", "MEDIUM", "HIGH" }

\* Math.pow(10, TOKEN_DECIMALS)
TokenUnit == FromDecimal(FALSE, 10 ^ TOKEN_DECIMALS, 0)

\* An address string is held as its first three characters and the rest.
\* bs58.decode of the rest: the number of bytes it decodes to, or Undefined
\* when it holds a character outside the base58 alphabet.
bs58decode(text) ==
    CASE text = "8j9ARGFv4W2GfML7d3sVJK2MePwrikqYnu6yqer28cCa" -> 32
      [] text = "8unXKJYTxrR423HgQxbDmx29mFri1QNrzVKKDxEfc6bj" -> 32
      [] text = "2kXrG1joTd2eXtjPoELbWJDzhC6BMnjGMpbtPodwBLJ" -> 31
      [] OTHER -> Undefined

isValidAddress(address) ==
    IF address[1] # ADDRESS_PREFIX THEN FALSE
    ELSE bs58decode(address[2]) = 32

AddressText(address) == address[1] \o address[2]

\* An object is the sequence of its << key, value >> entries in insertion
\* order.
Has(obj, key) == \E i \in 1 .. Len(obj) : obj[i][1] = key

Get(obj, key) == obj[CHOOSE i \in 1 .. Len(obj) : obj[i][1] = key][2]

\* { ...obj, key: value }
With(obj, key, value) ==
    IF Has(obj, key)
    THEN [ i \in 1 .. Len(obj) |-> IF obj[i][1] = key THEN << key, value >> ELSE obj[i] ]
    ELSE Append(obj, << key, value >>)

\* Date.now() / 1000 is held as the whole number of milliseconds.
build(params) ==
    LET amountMicro == MathFloor(Times(FromLiteral(params.amount), TokenUnit))
        ou == ToString(FEE_TIERS[params.feeTier].ou)
    IN  << << "from", params.from >>,
           << "to_", params.to >>,
           << "amount", IntegerToString(amountMicro) >>,
           << "nonce", params.nonce >>,
           << "ou", ou >>,
           << "timestamp", now >> >>

\* A signed message that serializes the object's entries in their own order.
signedMessage_inKeyOrder(tx) ==
    LET Render(entry) ==
            "\"" \o entry[1] \o "\":"
                \o (IF entry[1] = "nonce" THEN ToString(entry[2])
                    ELSE IF entry[1] = "timestamp" THEN SecondsToString(entry[2])
                    ELSE IF entry[1] \in { "from", "to_" }
                         THEN "\"" \o AddressText(entry[2]) \o "\""
                         ELSE "\"" \o entry[2] \o "\"")
    IN  "{" \o Render(tx[1]) \o "," \o Render(tx[2]) \o "," \o Render(tx[3]) \o ","
            \o Render(tx[4]) \o "," \o Render(tx[5]) \o "," \o Render(tx[6]) \o "}"

signedMessage(tx) ==
    "{\"from\":\"" \o AddressText(Get(tx, "from"))
        \o "\",\"to_\":\"" \o AddressText(Get(tx, "to_"))
        \o "\",\"amount\":\"" \o Get(tx, "amount")
        \o "\",\"nonce\":" \o ToString(Get(tx, "nonce"))
        \o ",\"ou\":\"" \o Get(tx, "ou")
        \o "\",\"timestamp\":" \o SecondsToString(Get(tx, "timestamp")) \o "}"

\* nacl.sign.detached over the UTF-8 bytes of the message
detached(messageBytes, secretKey) == [ signed |-> messageBytes, by |-> secretKey ]

toBase64(bytes) == << "base64", bytes >>

sign(tx, privateKeyBase64, publicKeyBase64) ==
    LET messageBytes == << "utf8", signedMessage(tx) >>
        signature == toBase64(detached(messageBytes, privateKeyBase64))
    IN  With(With(tx, "signature", signature), "public_key", publicKeyBase64)

buildAndSign(params) == sign(build(params), params.privateKey, params.publicKey)

calculateFee(feeTier) == FEE_TIERS[feeTier].fee

\* 1 / Math.pow(10, TOKEN_DECIMALS), and its text in the error message
minAmount == FromDecimal(FALSE, 1, TOKEN_DECIMALS)
MinimumAmountError == "Minimum amount is 0.000001 OCT"

validate(params) ==
    LET amount == FromLiteral(params.amount)
        balance == FromLiteral(params.balance)
        zero == FromDecimal(FALSE, 0, 0)
    IN  IF ~isValidAddress(params.to)
        THEN [ valid |-> FALSE, error |-> "Invalid recipient address" ]
        ELSE IF LessThan(amount, zero) \/ (IsZero(amount))
        THEN [ valid |-> FALSE, error |-> "Amount must be greater than 0" ]
        ELSE IF LessThan(amount, minAmount)
        THEN [ valid |-> FALSE, error |-> MinimumAmountError ]
        ELSE IF LessThan(balance, Plus(amount, calculateFee(params.feeTier)))
        THEN [ valid |-> FALSE, error |-> "Insufficient balance" ]
        ELSE [ valid |-> TRUE ]

\* A call of a TransactionBuilder function: it returns and changes nothing.
Called(op, ret) ==
    /\ last' = Outcome(op, "", 0, FALSE, last.pw, isUnlocked, ret)
    /\ UNCHANGED << memory, vault, session, clock, history, pending >>

callBuild ==
    /\ last.op = "request" /\ last.pw.call = "build"
    /\ Called("build", build(last.pw))

callSign ==
    /\ last.op = "request" /\ last.pw.call = "sign"
    /\ Called("sign", sign(last.pw.tx, last.pw.privateKey, last.pw.publicKey))

callBuildAndSign ==
    /\ last.op = "request" /\ last.pw.call = "buildAndSign"
    /\ Called("buildAndSign", buildAndSign(last.pw))

callValidate ==
    /\ last.op = "request" /\ last.pw.call = "validate"
    /\ Called("validate", validate(last.pw))

\* Inputs
MaxMicro == 260

Literal(digits, scale) == [ nan |-> FALSE, neg |-> FALSE, digits |-> digits, scale |-> scale ]
NaNLiteral == [ nan |-> TRUE, neg |-> FALSE, digits |-> 0, scale |-> 0 ]
Negative(lit) == [ lit EXCEPT !.neg = TRUE ]

AddressA == << "oct", "8j9ARGFv4W2GfML7d3sVJK2MePwrikqYnu6yqer28cCa" >>
AddressB == << "oct", "8unXKJYTxrR423HgQxbDmx29mFri1QNrzVKKDxEfc6bj" >>
Recipients ==
    { AddressB,
      << "0x8", "unXKJYTxrR423HgQxbDmx29mFri1QNrzVKKDxEfc6bj" >>,
      << "oct", "2kXrG1joTd2eXtjPoELbWJDzhC6BMnjGMpbtPodwBLJ" >>,
      << "oct", "0OIl" >> }

\* Amounts with six decimals from 0 to MaxMicro micro-units, and 1.9999999,
\* 0.29 and 1.
BuildAmounts ==
    { Literal(k, TOKEN_DECIMALS) : k \in 0 .. MaxMicro }
        \cup { Literal(19999999, 7), Literal(29, 2), Literal(1, 0) }

BuildRequests ==
    { [ call |-> "build", from |-> AddressA, to |-> AddressB, amount |-> a,
        nonce |-> 1, feeTier |-> "LOW" ] : a \in BuildAmounts }
    \cup { [ call |-> "build", from |-> AddressA, to |-> AddressB,
             amount |-> Literal(1, 0), nonce |-> 42, feeTier |-> t ] : t \in FeeTierNames }

BuildAndSignRequests ==
    { [ call |-> "buildAndSign", from |-> AddressA, to |-> AddressB, amount |-> a,
        nonce |-> n, feeTier |-> t, privateKey |-> "c2sx", publicKey |-> "cGsx" ] :
        a \in { Literal(5, 1), Literal(249, TOKEN_DECIMALS) }, n \in { 1, 42 },
        t \in FeeTierNames }

\* Transaction objects with their six entries in several orders.
KeyOrders ==
    { << 1, 2, 3, 4, 5, 6 >>, << 6, 5, 4, 3, 2, 1 >>, << 4, 1, 6, 2, 5, 3 >> }

Reordered(tx, order) == [ i \in 1 .. Len(tx) |-> tx[order[i]] ]

SignRequests ==
    { [ call |-> "sign",
        tx |-> Reordered(<< << "from", AddressA >>, << "to_", to >>, << "amount", amount >>,
                            << "nonce", nonce >>, << "ou", "10000" >>,
                            << "timestamp", timestamp >> >>, order),
        privateKey |-> key[1], publicKey |-> key[2] ] :
        to \in { AddressA, AddressB }, amount \in { "0", "1999999" }, nonce \in { 0, 42 },
        timestamp \in { 1700000000, 61120 }, order \in KeyOrders,
        key \in { << "c2sx", "cGsx" >>, << "c2sy", "cGsy" >> } }

ValidateAmounts ==
    { NaNLiteral, Negative(Literal(1, 0)), Literal(0, 0), Literal(1, 7), Literal(1, 6),
      Literal(4, 6), Literal(5, 6), Literal(5, 1), Literal(1, 0) }

\* Balances as parseBalance yields them: whole micro-units divided by 10^6.
ValidateBalances ==
    { Literal(b, TOKEN_DECIMALS) :
        b \in { 0, 1000, 1001, 1004, 1005, 2004, 5005, 500999, 501000, 1001000, 1005000 } }

ValidateRequests ==
    { [ call |-> "validate", to |-> to, amount |-> a, balance |-> b, feeTier |-> t ] :
        to \in Recipients, a \in ValidateAmounts, b \in ValidateBalances, t \in FeeTierNames }

TxClock == { MsPerMinute, MsPerMinute + 5, MsPerMinute + 120 }

InitTx ==
    /\ walletData = NULL
    /\ currentPassword = NoPassword
    /\ cachedKey = NULL
    /\ cachedSalt = NoSalt
    /\ vault = NULL
    /\ session = NoPassword
    /\ lastActivity = Undefined
    /\ autoLockTimeout = Undefined
    /\ now \in TxClock
    /\ changedSince = "no"
    /\ \E request \in BuildRequests \cup BuildAndSignRequests \cup SignRequests
                          \cup ValidateRequests :
           last = Outcome("request", "", 0, FALSE, request, FALSE, << >>)
    /\ restorable = FALSE
    /\ everIssued = {}
    /\ pending = NoRequests

NextTx ==
    \/ callBuild
    \/ callSign
    \/ callBuildAndSign
    \/ callValidate

SpecTx == InitTx /\ [][NextTx]_vars

-----------------------------------------------------------------------------
(* C23 *)

\* C23: the bytes TransactionBuilder.sign signs are exactly
\* {"from":"..","to_":"..","amount":"..","nonce":N,"ou":"..","timestamp":T}
\* with the fields in this order and quoting, whatever the order of the keys
\* of the transaction object; the returned object carries every field of the
\* transaction unchanged, and signature and public_key.
C23_SignedBytes ==
    (last.op \in { "sign", "buildAndSign" })
    => LET ret == last.ret
           signature == Get(ret, "signature")
           expected ==
               "{" \o "\"from\":" \o "\"" \o AddressText(Get(ret, "from")) \o "\"" \o ","
                   \o "\"to_\":" \o "\"" \o AddressText(Get(ret, "to_")) \o "\"" \o ","
                   \o "\"amount\":" \o "\"" \o Get(ret, "amount") \o "\"" \o ","
                   \o "\"nonce\":" \o ToString(Get(ret, "nonce")) \o ","
                   \o "\"ou\":" \o "\"" \o Get(ret, "ou") \o "\"" \o ","
                   \o "\"timestamp\":" \o SecondsToString(Get(ret, "timestamp")) \o "}"
       IN  /\ signature[1] = "base64"
           /\ signature[2].signed = << "utf8", expected >>
           /\ signature[2].by = last.pw.privateKey
           /\ Get(ret, "public_key") = last.pw.publicKey
           /\ Len(ret) = 8
           /\ last.op = "sign"
                => \A i \in 1 .. Len(last.pw.tx) : ret[i] = last.pw.tx[i]
           /\ last.op = "buildAndSign"
                => /\ Get(ret, "from") = last.pw.from
                   /\ Get(ret, "to_") = last.pw.to
                   /\ Get(ret, "nonce") = last.pw.nonce
                   /\ Get(ret, "timestamp") = now

\* A transaction object whose keys were not in the order of the message was
\* signed, with a fractional timestamp.
C23_Witness ==
    /\ last.op = "sign"
    /\ last.pw.tx[1][1] = "timestamp"
    /\ last.pw.tx[6][1] = "from"
    /\ Get(last.ret, "timestamp") = 61120
    /\ Has(last.ret, "signature")
    /\ Has(last.ret, "public_key")

-----------------------------------------------------------------------------
(* C24 *)

\* floor(digits / 10^scale * 10^TOKEN_DECIMALS) of a decimal literal
MicroUnits(lit) ==
    IF lit.scale <= TOKEN_DECIMALS
    THEN lit.digits * 10 ^ (TOKEN_DECIMALS - lit.scale)
    ELSE lit.digits \div 10 ^ (lit.scale - TOKEN_DECIMALS)

\* C24: TransactionBuilder.build turns every non-negative decimal amount a
\* into the integer string of floor(a * 10^6): never more than the amount
\* asked for, and short of it by less than one micro-unit.
C24_BuildTruncates ==
    (last.op = "build" /\ ~last.pw.amount.nan /\ ~last.pw.amount.neg)
    => Get(last.ret, "amount") = ToString(MicroUnits(last.pw.amount))


-----------------------------------------------------------------------------
(* C25 *)

FeeMicro(feeTier) ==
    CASE feeTier = "LOW" -> 1000 [] feeTier = "MEDIUM" -> 2000 [] feeTier = "HIGH" -> 5000

\* The amount in units of 10^-7, for decimal literals of at most 7 places.
TenthMicro(lit) == lit.digits * 10 ^ (7 - lit.scale)

ExpectedValidation(params) ==
    LET a == params.amount
    IN  IF ~(params.to[1] = "oct" /\ bs58decode(params.to[2]) = 32)
        THEN [ valid |-> FALSE, error |-> "Invalid recipient address" ]
        ELSE IF a.nan \/ a.neg \/ a.digits = 0
        THEN [ valid |-> FALSE, error |-> "Amount must be greater than 0" ]
        ELSE IF TenthMicro(a) < 10
        THEN [ valid |-> FALSE, error |-> "Minimum amount is 0.000001 OCT" ]
        ELSE IF TenthMicro(a) + 10 * FeeMicro(params.feeTier) > 10 * params.balance.digits
        THEN [ valid |-> FALSE, error |-> "Insufficient balance" ]
        ELSE [ valid |-> TRUE ]

\* C25: TransactionBuilder.validate returns valid = true exactly when the
\* recipient address is well-formed, the amount is positive and at least
\* 10^-6, and amount plus the fee of the tier is at most the balance;
\* otherwise valid = false with the reason of the first failing check, in
\* that order.  It never throws.
C25_ValidateDecides ==
    (last.op = "validate")
    => /\ last.err = ""
       /\ last.ret = ExpectedValidation(last.pw)

-----------------------------------------------------------------------------
(* OctraKeyring on its own: key pairs from raw secrets and mnemonics *)

MaxSeed == 3

\* Decoded lengths a base64 text can have, 32 and 64 among them.
DecodedLengths == { 0, 31, 32, 33, 64, 65 }

\* A 64- or 128-digit hex text decodes to 32 or 64 bytes; any other text is
\* read as base64, or is no base64 at all.
KeyringInputs ==
    { [ format |-> "hex", length |-> n, seed |-> k, tail |-> t ] :
        n \in { 32, 64 }, k \in 1 .. MaxSeed, t \in 1 .. MaxSeed }
    \cup { [ format |-> "base64", length |-> n, seed |-> k, tail |-> t ] :
             n \in DecodedLengths, k \in 1 .. MaxSeed, t \in 1 .. MaxSeed }
    \cup { [ format |-> "garbage", length |-> 0, seed |-> 1, tail |-> 1 ] }

KeyringMnemonics ==
    { [ call |-> "fromMnemonic", words |-> w, seed |-> k ] :
        w \in { 0, 11, 12, 13, 24 }, k \in 1 .. MaxSeed }

\* A call of an OctraKeyring function: it returns a key pair or throws, and
\* changes nothing.
KeyringCalled(op, kp) ==
    /\ last' = Outcome(op, kp.err, 0, FALSE, last.pw, isUnlocked,
                       IF kp.err = "" THEN << kp >> ELSE << >>)
    /\ UNCHANGED << memory, vault, session, clock, history, pending >>

callFromPrivateKey ==
    /\ last.op = "request" /\ last.pw.call = "fromPrivateKey"
    /\ KeyringCalled("fromPrivateKey", fromPrivateKey(last.pw.input))

callFromMnemonic ==
    /\ last.op = "request" /\ last.pw.call = "fromMnemonic"
    /\ KeyringCalled("fromMnemonic", fromMnemonic(last.pw))

InitKeyring ==
    /\ walletData = NULL
    /\ currentPassword = NoPassword
    /\ cachedKey = NULL
    /\ cachedSalt = NoSalt
    /\ vault = NULL
    /\ session = NoPassword
    /\ lastActivity = Undefined
    /\ autoLockTimeout = Undefined
    /\ now = MsPerMinute
    /\ changedSince = "no"
    /\ \E request \in { [ call |-> "fromPrivateKey", input |-> i ] : i \in KeyringInputs }
                          \cup KeyringMnemonics :
           last = Outcome("request", "", 0, FALSE, request, FALSE, << >>)
    /\ restorable = FALSE
    /\ everIssued = {}
    /\ pending = NoRequests

NextKeyring ==
    \/ callFromPrivateKey
    \/ callFromMnemonic

SpecKeyring == InitKeyring /\ [][NextKeyring]_vars

-----------------------------------------------------------------------------
(* C26 *)

\* C26: a key pair made from a raw secret has the public key, and the
\* address, of its first 32 bytes: a 64-byte secret yields the public key
\* derivable from its first half, a 32-byte secret is expanded as a seed, and
\* any other decoded length fails as an invalid key length.
C26_KeyPairInvariant ==
    (last.op = "fromPrivateKey" /\ last.pw.input.format # "garbage")
    => LET input == last.pw.input
       IN  IF input.length \in { 32, 64 }
           THEN /\ last.err = ""
                /\ last.ret[1].publicKey = KeyPairFromSeed(input.seed).publicKey
                /\ last.ret[1].address = KeyPairFromSeed(input.seed).address
                /\ last.ret[1].privateKey[1] = input.seed
           ELSE last.err = "Invalid private key length: " \o ToString(input.length)

-----------------------------------------------------------------------------
(* C27 *)

InputValidationErrors ==
    { "Mnemonic must be 12 or 24 words",
      "Invalid private key format. Use base64 or hex." }
        \cup { "Invalid private key length: " \o ToString(n) : n \in { 0, 31, 33, 65 } }

\* C27: an importAccount or importAccountFromMnemonic that is rejected for
\* its input (a mnemonic of other than 12 or 24 words, a key text that does
\* not decode, a decoded key of other than 32 or 64 bytes) leaves the
\* account list, nextAccountIndex and the persisted blob unchanged, and
\* consumes no index.
C27_RejectedImportChangesNothing ==
    [][ ( /\ last'.op \in { "importAccount", "importAccountFromMnemonic" }
          /\ last'.err \in InputValidationErrors )
        => /\ walletData' = walletData
           /\ vault' = vault
           /\ everIssued' = everIssued
           /\ last'.kdf = 0 ]_vars

\* A key text of 31 bytes was refused by an unlocked wallet that had issued
\* index 0 only.
C27_Witness ==
    /\ last.op = "importAccount"
    /\ last.err = "Invalid private key length: 31"
    /\ last.wasUnlocked
    /\ walletData # NULL
    /\ Len(walletData.accounts) = 1
    /\ walletData.nextAccountIndex = 1
    /\ vault # NULL
    /\ vault.data = walletData

-----------------------------------------------------------------------------
(* C28 *)

\* C28: renameAccount(index, name) changes the name of the account with that
\* index and nothing else: every account keeps its index, address and keys,
\* the list keeps its order and length, nextAccountIndex and the names of the
\* other accounts stay, and the renamed record is what the blob holds; when
\* no account has the index, the call fails and nothing changes.
C28_RenameChangesOnlyTheName ==
    [][ \A index \in 0 .. MaxSessionIndex, name \in CustomNames :
          (last'.op = "renameAccount" /\ walletData # NULL /\ renameAccount(index, name))
              => IF index \in Indices(walletData)
                 THEN /\ last'.err = ""
                      /\ Len(walletData'.accounts) = Len(walletData.accounts)
                      /\ walletData'.nextAccountIndex = walletData.nextAccountIndex
                      /\ \A i \in 1 .. Len(walletData.accounts) :
                            LET before == walletData.accounts[i]
                                after == walletData'.accounts[i]
                            IN  /\ after.index = before.index
                                /\ after.address = before.address
                                /\ after.publicKey = before.publicKey
                                /\ after.privateKey = before.privateKey
                                /\ after.name = IF before.index = index THEN name
                                                ELSE before.name
                      /\ vault' # NULL
                      /\ vault'.data = walletData'
                      /\ vault'.key.password = currentPassword'
                 ELSE /\ last'.err = "Account not found"
                      /\ walletData' = walletData
                      /\ vault' = vault
      ]_vars

\* The second of two accounts was renamed and the first kept its default
\* name.
C28_Witness ==
    /\ last.op = "renameAccount"
    /\ last.err = ""
    /\ Len(walletData.accounts) = 2
    /\ walletData.accounts[2].index = 1
    /\ walletData.accounts[2].name = "Savings"
    /\ walletData.accounts[1].name = DefaultName(walletData.accounts[1].index + 1)
    /\ vault.data = walletData


-----------------------------------------------------------------------------
(* Concurrent handling.  onMessage starts the handler of every message as  *)
(* it arrives and nothing orders the handlers: each runs from one await to *)
(* the next, and between two awaits of one handler any step of another may *)
(* run.  A step below is the code between two such points, taken at the    *)
(* moment it reads or writes the static fields or the storage.             *)

Resume(slot, pc, blob, local) ==
    pending' = [ pending EXCEPT ![slot] =
                    Handler(pc, @.op, @.args, blob, local, "", << >>) ]

\* sendResponse: the handler answers and is gone.
Respond(slot, op, args, err, kdf, ret) ==
    /\ pending' = [ pending EXCEPT ![slot] =
                       Handler("done", op, args, NULL, << >>, err, ret) ]
    /\ last' = Outcome(op, err, kdf, FALSE, args, isUnlocked, ret)

\* A handler that throws before it changed anything.
Rejects(slot, op, args, err, kdf) ==
    /\ Respond(slot, op, args, err, kdf, << >>)
    /\ UNCHANGED << memory, vault, session, clock, history >>

\* A mutating handler up to the first await inside save(): the change to the
\* record in memory, save()'s own check, the JSON snapshot of the record and
\* the salt encryptData draws for it.
beginSave(slot, op, args, wd, issued, ret) ==
    /\ walletData' = wd
    /\ everIssued' = issued
    /\ UNCHANGED << currentPassword, cachedKey, cachedSalt, vault, session, clock,
                    changedSince, restorable >>
    /\ IF wd = NULL \/ currentPassword = NoPassword
       THEN Respond(slot, op, args, "Cannot save: wallet not loaded or no password",
                    0, << >>)
       ELSE /\ pending' = [ pending EXCEPT ![slot] =
                               Handler("save", op, args, encryptData(wd, currentPassword),
                                       ret, "", << >>) ]
            /\ UNCHANGED last

\* chrome.storage.local.set of save() lands; the handler answers.
saveStored(slot) ==
    /\ pending[slot].pc = "save"
    /\ vault' = pending[slot].blob
    /\ Respond(slot, pending[slot].op, pending[slot].args, "", 1, pending[slot].local)
    /\ UNCHANGED << memory, session, clock, history >>

beginAppend(slot, op, args, name, kp) ==
    LET index == walletData.nextAccountIndex
        account == NewAccount(index, IF name # "" THEN name ELSE DefaultName(index + 1), kp)
        wd == [ accounts |-> Append(walletData.accounts, account),
                nextAccountIndex |-> index + 1 ]
    IN  beginSave(slot, op, args, wd, everIssued \cup { index }, << PublicView(account) >>)

startAddAccount(slot, name) ==
    /\ pending[slot] = Idle
    /\ IF walletData = NULL
       THEN Rejects(slot, "addAccount", << name >>, "Wallet is not loaded", 0)
       ELSE IF Len(walletData.accounts) >= MAX_ACCOUNTS
            THEN Rejects(slot, "addAccount", << name >>, MaximumAccountsError, 0)
            ELSE beginAppend(slot, "addAccount", << name >>, name,
                             generate(walletData.nextAccountIndex))

startImportAccount(slot, privateKeyInput, name) ==
    LET args == << privateKeyInput, name >>
        kp == fromPrivateKey(privateKeyInput)
    IN  /\ pending[slot] = Idle
        /\ IF walletData = NULL
           THEN Rejects(slot, "importAccount", args, "Wallet is not loaded", 0)
           ELSE IF Len(walletData.accounts) >= MAX_ACCOUNTS
                THEN Rejects(slot, "importAccount", args, MaximumAccountsError, 0)
                ELSE IF kp.err # "" THEN Rejects(slot, "importAccount", args, kp.err, 0)
                ELSE IF kp.address \in Addresses(walletData)
                     THEN Rejects(slot, "importAccount", args,
                                  "This account already exists", 0)
                     ELSE beginAppend(slot, "importAccount", args, name, kp)

startRemoveAccount(slot, index) ==
    /\ pending[slot] = Idle
    /\ IF walletData = NULL
       THEN Rejects(slot, "removeAccount", << index >>, "Wallet is not loaded", 0)
       ELSE IF Len(walletData.accounts) <= 1
            THEN Rejects(slot, "removeAccount", << index >>,
                         "Cannot remove the last account", 0)
            ELSE LET at == FindIndex(walletData.accounts, index)
                 IN  IF at = 0
                     THEN Rejects(slot, "removeAccount", << index >>, "Account not found", 0)
                     ELSE beginSave(slot, "removeAccount", << index >>,
                                    [ walletData EXCEPT
                                        !.accounts = Splice(walletData.accounts, at) ],
                                    everIssued, << >>)

startRenameAccount(slot, index, name) ==
    /\ pending[slot] = Idle
    /\ IF walletData = NULL
       THEN Rejects(slot, "renameAccount", << index, name >>, "Wallet is not loaded", 0)
       ELSE LET at == FindIndex(walletData.accounts, index)
            IN  IF at = 0
                THEN Rejects(slot, "renameAccount", << index, name >>,
                             "Account not found", 0)
                ELSE beginSave(slot, "renameAccount", << index, name >>,
                               [ walletData EXCEPT !.accounts[at].name = name ],
                               everIssued, << >>)

\* changePassword arrives; the storage read of verifyPassword is served.
startChangePassword(slot, oldPassword, newPassword) ==
    /\ pending[slot] = Idle
    /\ pending' = [ pending EXCEPT ![slot] =
                       Handler("verify", "changePassword", << oldPassword, newPassword >>,
                               vault, << >>, "", << >>) ]
    /\ UNCHANGED << memory, vault, session, clock, history, last >>

\* verifyPassword has decrypted the blob it read, the new password has been
\* validated, and the second storage read is served.
changePasswordVerified(slot) ==
    LET h == pending[slot]
    IN  /\ h.pc = "verify"
        /\ IF h.blob = NULL
           THEN Rejects(slot, h.op, h.args, "Invalid current password", 0)
           ELSE IF ~decryptData(h.blob, h.args[1]).ok
                THEN Rejects(slot, h.op, h.args, "Invalid current password", 1)
                ELSE IF validatePassword(h.args[2]) # ""
                     THEN Rejects(slot, h.op, h.args, validatePassword(h.args[2]), 1)
                     ELSE /\ Resume(slot, "reencrypt", vault, << >>)
                          /\ UNCHANGED << memory, vault, session, clock, history, last >>

\* The blob of the second read has been decrypted with the old password and
\* encrypted with the new one; chrome.storage.local.set lands.
changePasswordStored(slot) ==
    LET h == pending[slot]
    IN  /\ h.pc = "reencrypt"
        /\ IF h.blob = NULL
           THEN Rejects(slot, h.op, h.args, "TypeError", 1)
           ELSE IF ~decryptData(h.blob, h.args[1]).ok
                THEN Rejects(slot, h.op, h.args, "OperationError", 2)
                ELSE /\ vault' = encryptData(decryptData(h.blob, h.args[1]).data, h.args[2])
                     /\ changedSince' = "changed"
                     /\ Resume(slot, "stored", NULL, << >>)
                     /\ UNCHANGED << memory, session, clock, restorable, everIssued, last >>

\* The tail of changePassword after the write.
changePasswordDone(slot) ==
    LET h == pending[slot]
    IN  /\ h.pc = "stored"
        /\ IF isUnlocked
           THEN /\ currentPassword' = h.args[2]
                /\ cachedKey' = NULL
                /\ cachedSalt' = NoSalt
           ELSE UNCHANGED << currentPassword, cachedKey, cachedSalt >>
        /\ Respond(slot, h.op, h.args, "", 3, << >>)
        /\ UNCHANGED << walletData, vault, session, clock, history >>

\* unlock arrives and asks the storage for the blob.
startUnlock(slot, password) ==
    /\ pending[slot] = Idle
    /\ pending' = [ pending EXCEPT ![slot] =
                       Handler("get", "unlock", << password >>, NULL, [ kdf |-> 0 ],
                               "", << >>) ]
    /\ UNCHANGED << memory, vault, session, clock, history, last >>

\* The storage read of unlock is served.
unlockRead(slot) ==
    LET h == pending[slot]
    IN  /\ h.pc = "get"
        /\ IF vault = NULL
           THEN Rejects(slot, h.op, h.args, "No wallet found", h.local.kdf)
           ELSE /\ Resume(slot, "try", vault, h.local)
                /\ UNCHANGED << memory, vault, session, clock, history, last >>

\* The head of the try block: the cache is consulted and the decryption of
\* the blob that was read is started.
unlockDecrypt(slot) ==
    LET h == pending[slot]
        r == UnlockOnce(h.args[1], cachedKey, cachedSalt, h.blob)
    IN  /\ h.pc = "try"
        /\ Resume(slot, "decrypted", h.blob, [ kdf |-> h.local.kdf + r.kdf, r |-> r ])
        /\ changedSince' = "no"
        /\ UNCHANGED << memory, vault, session, clock, restorable, everIssued, last >>

\* The catch block of unlock.
unlockCaught(slot) ==
    LET h == pending[slot]
    IN  IF cachedKey # NULL
        THEN /\ cachedKey' = NULL
             /\ cachedSalt' = NoSalt
             /\ Resume(slot, "get", NULL, [ kdf |-> h.local.kdf ])
             /\ UNCHANGED << walletData, currentPassword, vault, session, clock,
                             history, last >>
        ELSE Rejects(slot, h.op, h.args, "Invalid password", h.local.kdf)

\* The decryption has settled: the record is loaded and the password
\* remembered, or the catch block runs.
unlockLoaded(slot) ==
    LET h == pending[slot]
        r == h.local.r
    IN  /\ h.pc = "decrypted"
        /\ IF r.ok
           THEN /\ IF r.fast
                   THEN UNCHANGED << cachedKey, cachedSalt >>
                   ELSE /\ cachedKey' = r.key
                        /\ cachedSalt' = r.salt
                /\ walletData' = r.data
                /\ currentPassword' = h.args[1]
                /\ restorable' = (h.args[1] = h.blob.key.password)
                /\ Resume(slot, "activity", NULL, [ kdf |-> h.local.kdf ])
                /\ UNCHANGED << vault, session, clock, changedSince, everIssued, last >>
           ELSE unlockCaught(slot)

\* updateActivity's write lands; saveSession reads the remembered password.
unlockActivity(slot) ==
    LET h == pending[slot]
    IN  /\ h.pc = "activity"
        /\ lastActivity' = now
        /\ Resume(slot, IF currentPassword = NoPassword THEN "return" ELSE "session",
                  NULL, [ kdf |-> h.local.kdf, session |-> currentPassword ])
        /\ UNCHANGED << memory, vault, session, autoLockTimeout, now, history, last >>

\* chrome.storage.session.set of saveSession lands.
unlockSession(slot) ==
    LET h == pending[slot]
    IN  /\ h.pc = "session"
        /\ session' = h.local.session
        /\ Resume(slot, "return", NULL, h.local)
        /\ UNCHANGED << memory, vault, clock, history, last >>

\* return this.getAccounts(), still inside the try block.
unlockReturn(slot) ==
    LET h == pending[slot]
    IN  /\ h.pc = "return"
        /\ IF walletData = NULL
           THEN unlockCaught(slot)
           ELSE /\ Respond(slot, h.op, h.args, "", h.local.kdf, getAccounts(walletData))
                /\ UNCHANGED << memory, vault, session, clock, history >>

\* No handler is between two of its steps.
Quiescent == \A slot \in Slots : pending[slot].pc \in { "idle", "done" }

Answered(slot, op) == pending[slot].pc = "done" /\ pending[slot].op = op


-----------------------------------------------------------------------------
(* Specification of concurrent mutations: an unlocked wallet of two        *)
(* accounts, as create followed by addAccount leaves it, and up to         *)
(* MaxInFlight mutating requests handled at the same time.                 *)

InitTwoAccounts ==
    LET wd == GrownWallet(2)
    IN  /\ walletData = wd
        /\ currentPassword = PwA
        /\ cachedKey = NULL
        /\ cachedSalt = NoSalt
        /\ vault = [ salt |-> "s1", key |-> deriveKey(PwA, "s1"), data |-> wd ]
        /\ session = NoPassword
        /\ lastActivity = Undefined
        /\ autoLockTimeout = Undefined
        /\ now = MsPerMinute
        /\ changedSince = "no"
        /\ last = Outcome("addAccount", "", 1, FALSE, NoPassword, TRUE,
                          << PublicView(wd.accounts[2]) >>)
        /\ restorable = FALSE
        /\ everIssued = { 0, 1 }
        /\ pending = NoRequests

NextMutations ==
    \/ \E slot \in Slots, name \in NameChoices : startAddAccount(slot, name)
    \/ \E slot \in Slots, input \in PrivateKeyInputs : startImportAccount(slot, input, "")
    \/ \E slot \in Slots, index \in 0 .. 2 : startRemoveAccount(slot, index)
    \/ \E slot \in Slots, index \in 0 .. 2, name \in CustomNames :
          startRenameAccount(slot, index, name)
    \/ \E slot \in Slots : saveStored(slot)
    \/ \E new \in { PwB, PwWeak } : startChangePassword(1, PwA, new)
    \/ \E slot \in Slots : changePasswordVerified(slot)
    \/ \E slot \in Slots : changePasswordStored(slot)
    \/ \E slot \in Slots : changePasswordDone(slot)

SpecMutations == InitTwoAccounts /\ [][NextMutations]_vars

\* C29: access to the record and the blob is serialized.  Whenever every
\* mutating request (add, import, remove, rename, changePassword) that was
\* handled concurrently has been answered, the persisted blob holds exactly
\* the record in memory: no mutation was lost to another operation's rewrite
\* of the whole blob.
C29_NoMutationLost ==
    (Quiescent /\ walletData # NULL)
        => /\ vault # NULL
           /\ vault.data = walletData


-----------------------------------------------------------------------------
(* Specification of a password change racing an unlock: a wallet of one    *)
(* account under PwA, locked or unlocked, with or without a cached key;    *)
(* one changePassword(PwA, new) and one unlock(PwA) handled at the same    *)
(* time.                                                                   *)

InitRace ==
    LET wd == GrownWallet(1)
        blob == [ salt |-> "s1", key |-> deriveKey(PwA, "s1"), data |-> wd ]
    IN  /\ vault = blob
        /\ \E unlocked \in BOOLEAN, warm \in BOOLEAN :
              /\ walletData = IF unlocked THEN wd ELSE NULL
              /\ currentPassword = IF unlocked THEN PwA ELSE NoPassword
              /\ cachedKey = IF warm THEN blob.key ELSE NULL
              /\ cachedSalt = IF warm THEN blob.salt ELSE NoSalt
              /\ session = IF unlocked /\ warm THEN PwA ELSE NoPassword
              /\ lastActivity = IF warm THEN MsPerMinute ELSE Undefined
              /\ restorable = (unlocked /\ warm)
        /\ autoLockTimeout = Undefined
        /\ now = MsPerMinute
        /\ changedSince = "no"
        /\ last = Outcome("start", "", 0, FALSE, NoPassword, FALSE, << >>)
        /\ everIssued = { 0 }
        /\ pending = NoRequests

NextRace ==
    \/ \E new \in { PwB, PwWeak } : startChangePassword(1, PwA, new)
    \/ \E slot \in Slots : changePasswordVerified(slot)
    \/ \E slot \in Slots : changePasswordStored(slot)
    \/ \E slot \in Slots : changePasswordDone(slot)
    \/ startUnlock(2, PwA)
    \/ \E slot \in Slots : unlockRead(slot)
    \/ \E slot \in Slots : unlockDecrypt(slot)
    \/ \E slot \in Slots : unlockLoaded(slot)
    \/ \E slot \in Slots : unlockActivity(slot)
    \/ \E slot \in Slots : unlockSession(slot)
    \/ \E slot \in Slots : unlockReturn(slot)

SpecRace == InitRace /\ [][NextRace]_vars

\* C30: under every interleaving of changePassword(old, new) with an unlock(old)
\* running at the same time, once both have been answered an unlocked wallet
\* remembers the password the persisted blob is encrypted under, and the key
\* cache is empty or holds the key of the persisted blob's salt.
C30_RaceLeavesWalletConsistent ==
    (Answered(1, "changePassword") /\ Answered(2, "unlock") /\ isUnlocked)
        => /\ vault.key.password = currentPassword
           /\ \/ cachedKey = NULL
              \/ cachedSalt = vault.salt /\ cachedKey = vault.key


-----------------------------------------------------------------------------
(* The retry of unlock *)

-----------------------------------------------------------------------------
(* The background message handler.  A message is NULL or [type, payload];  *)
(* a payload is NULL (undefined) or tells which of its fields are truthy.  *)
(* env holds what the services the handler calls do: the vault or storage  *)
(* call, the balance fetch, the submission and the address-info fetch.     *)

\* A response: the keys it carries, success, and error ("" when absent).
Ok(keys) == [ success |-> TRUE, keys |-> { "success" } \cup keys, error |-> "" ]
Fail(error) == [ success |-> FALSE, keys |-> { "success", "error" }, error |-> error ]

Returned == [ raised |-> FALSE, isError |-> FALSE, message |-> "" ]
Raised(message) == [ raised |-> TRUE, isError |-> TRUE, message |-> message ]
RaisedValue == [ raised |-> TRUE, isError |-> FALSE, message |-> "" ]

\* error instanceof Error ? error.message : 'Unknown error'
Caught(thrown) == Fail(IF thrown.isError THEN thrown.message ELSE "Unknown error")

\* The handler's answer and what it saw of the operation underneath:
\* "none" (never called), "returned", "raised", "refused" (a submission that
\* was not accepted) or "unavailable" (a fetch that failed and returned null).
Answer(response, saw) == [ response |-> response, saw |-> saw ]

\* await call; return response
Await(call, response) ==
    IF call.raised THEN Answer(Caught(call), "raised") ELSE Answer(response, "returned")

\* const { ... } = payload
Destructured(payload, answer) ==
    IF payload = NULL
    THEN Answer(Caught(Raised("Cannot destructure property of 'payload' as it is undefined.")),
                "none")
    ELSE answer

NoPayloadTypes ==
    { "GET_LOCK_STATUS", "LOCK_WALLET", "GET_ACTIVE_ACCOUNT", "RESET_WALLET",
      "UPDATE_ACTIVITY", "CHECK_AUTO_LOCK", "GET_AUTO_LOCK_TIMEOUT", "GET_RPC_URL" }
PayloadTypes ==
    { "ADD_ACCOUNT", "REMOVE_ACCOUNT", "RENAME_ACCOUNT", "SET_ACTIVE_ACCOUNT",
      "EXPORT_PRIVATE_KEY", "VERIFY_PASSWORD", "CHANGE_PASSWORD",
      "SET_AUTO_LOCK_TIMEOUT", "SET_RPC_URL" }
PasswordTypes == { "CREATE_WALLET", "UNLOCK_WALLET" }
\* The types answered with { success: true } and no data.
NoDataTypes ==
    { "LOCK_WALLET", "RESET_WALLET", "UPDATE_ACTIVITY", "REMOVE_ACCOUNT", "RENAME_ACCOUNT",
      "SET_ACTIVE_ACCOUNT", "CHANGE_PASSWORD", "SET_AUTO_LOCK_TIMEOUT", "SET_RPC_URL" }

Done(type) == Ok(IF type \in NoDataTypes THEN {} ELSE { "data" })

\* The switch of handleMessage, inside its try block.
Dispatch(type, payload, env) ==
    IF type \in NoPayloadTypes THEN Await(env.call, Done(type))
    ELSE IF type \in PayloadTypes THEN Destructured(payload, Await(env.call, Done(type)))
    ELSE IF type \in PasswordTypes
    THEN Destructured(payload,
            IF ~payload.password THEN Answer(Fail("Password required"), "none")
            ELSE Await(env.call, Done(type)))
    ELSE IF type = "IMPORT_WALLET"
    THEN Destructured(payload,
            IF ~payload.password THEN Answer(Fail("Password required"), "none")
            ELSE IF payload.mnemonic \/ payload.privateKey THEN Await(env.call, Done(type))
            ELSE Answer(Fail("Private key or mnemonic required"), "none"))
    ELSE IF type = "IMPORT_ACCOUNT"
    THEN Destructured(payload,
            IF payload.mnemonic \/ payload.privateKey THEN Await(env.call, Done(type))
            ELSE Answer(Fail("Private key or mnemonic required"), "none"))
    ELSE IF type = "GET_ACCOUNTS"
    THEN IF ~env.unlocked THEN Answer(Fail("Wallet is locked"), "none")
         ELSE Await(env.call, Done(type))
    ELSE IF type = "GET_BALANCE" THEN Destructured(payload, Await(env.balance, Done(type)))
    ELSE IF type = "SEND_TRANSACTION"
    THEN Destructured(payload,
            IF ~env.unlocked THEN Answer(Fail("Wallet is locked"), "none")
            ELSE IF env.call.raised THEN Answer(Caught(env.call), "raised")
            ELSE IF env.balance.raised THEN Answer(Caught(env.balance), "raised")
            ELSE IF env.send.status = "accepted" THEN Answer(Ok({ "data" }), "returned")
            ELSE Answer(Fail(IF env.send.error # "" THEN env.send.error
                             ELSE "Transaction failed"), "refused"))
    ELSE IF type = "GET_TRANSACTION_HISTORY"
    THEN Destructured(payload,
            Answer(Ok({ "data" }), IF env.info = "failed" THEN "unavailable" ELSE "returned"))
    ELSE IF type = "PING" THEN Answer(Ok({ "data" }), "none")
    ELSE Answer(Fail("Unknown message type: " \o type), "none")

\* handleMessage: [rejected, thrown, answer].  The message is taken apart
\* before the try block.
handleMessage(message, env) ==
    IF message = NULL
    THEN [ rejected |-> TRUE,
           thrown |-> Raised("Cannot destructure property 'type' of 'message' as it is null."),
           answer |-> Answer(NULL, "none") ]
    ELSE [ rejected |-> FALSE, thrown |-> Returned,
           answer |-> Dispatch(message.type, message.payload, env) ]

\* A listener that passes a rejection of the handler on.
onMessage_noCatch(message, env) ==
    LET promise == handleMessage(message, env)
    IN  IF promise.rejected THEN Answer(NULL, "none") ELSE promise.answer

\* onMessage: handler(message, sender).then(sendResponse).catch(...); what
\* sendResponse is called with.
onMessage(message, env) ==
    LET promise == handleMessage(message, env)
    IN  IF promise.rejected THEN Answer(Caught(promise.thrown), "none")
        ELSE promise.answer

receive ==
    /\ last.op = "request" /\ last.pw.call = "onMessage"
    /\ LET answer == onMessage(last.pw.message, last.pw.env)
       IN  last' = Outcome("onMessage",
                           IF answer.response = NULL THEN "" ELSE answer.response.error,
                           0, FALSE, last.pw, isUnlocked, << answer >>)
    /\ UNCHANGED << memory, vault, session, clock, history, pending >>

\* Inputs
HandledTypes ==
    NoPayloadTypes \cup PayloadTypes \cup PasswordTypes
    \cup { "IMPORT_WALLET", "IMPORT_ACCOUNT", "GET_ACCOUNTS", "GET_BALANCE",
           "SEND_TRANSACTION", "GET_TRANSACTION_HISTORY", "PING" }
UnhandledTypes == { "GET_NETWORK", "NO_SUCH_TYPE" }
Payloads ==
    { NULL } \cup [ password : BOOLEAN, mnemonic : BOOLEAN, privateKey : BOOLEAN ]
HandlerMessages ==
    { NULL } \cup [ type : HandledTypes \cup UnhandledTypes, payload : Payloads ]
CallOutcomes == { Returned, Raised("Wallet is not loaded"), RaisedValue }
BalanceOutcomes == { Returned, Raised("Failed to fetch balance from network") }
SendOutcomes ==
    { [ status |-> "accepted", error |-> "" ], [ status |-> "failed", error |-> "Invalid nonce" ],
      [ status |-> "failed", error |-> "" ] }
InfoOutcomes == { "found", "failed" }
HandlerEnvs ==
    [ unlocked : BOOLEAN, call : CallOutcomes, balance : BalanceOutcomes,
      send : SendOutcomes, info : InfoOutcomes ]
HandlerRequests ==
    { [ call |-> "onMessage", message |-> m, env |-> e ] : m \in HandlerMessages, e \in HandlerEnvs }

InitHandler ==
    /\ walletData = NULL
    /\ currentPassword = NoPassword
    /\ cachedKey = NULL
    /\ cachedSalt = NoSalt
    /\ vault = NULL
    /\ session = NoPassword
    /\ lastActivity = Undefined
    /\ autoLockTimeout = Undefined
    /\ now = MsPerMinute
    /\ changedSince = "no"
    /\ \E request \in HandlerRequests :
           last = Outcome("request", "", 0, FALSE, request, FALSE, << >>)
    /\ restorable = FALSE
    /\ everIssued = {}
    /\ pending = NoRequests

NextHandler == receive

SpecHandler == InitHandler /\ [][NextHandler]_vars

\* { success, data or error }: success true without an error, or success
\* false with a non-empty error string.
Structured(response) ==
    /\ response # NULL
    /\ IF response.success
       THEN response.keys \subseteq { "success", "data" } /\ response.error = ""
       ELSE response.keys = { "success", "error" } /\ response.error # ""

-----------------------------------------------------------------------------
(* lock, reset and create as concurrent handlers *)

\* A lock that forgets the password and keeps the record.
startLock_keepsRecord(slot) ==
    /\ pending[slot] = Idle
    /\ currentPassword' = NoPassword
    /\ restorable' = FALSE
    /\ pending' = [ pending EXCEPT ![slot] =
                       Handler("clearSession", "lock", << >>, NULL, << >>, "", << >>) ]
    /\ UNCHANGED << walletData, cachedKey, cachedSalt, vault, session, clock, changedSince,
                    everIssued, last >>

\* lock up to await this.clearSession().
startLock(slot) ==
    /\ pending[slot] = Idle
    /\ walletData' = NULL
    /\ currentPassword' = NoPassword
    /\ restorable' = FALSE
    /\ pending' = [ pending EXCEPT ![slot] =
                       Handler("clearSession", "lock", << >>, NULL, << >>, "", << >>) ]
    /\ UNCHANGED << cachedKey, cachedSalt, vault, session, clock, changedSince,
                    everIssued, last >>

\* chrome.storage.session.remove of clearSession lands.
lockCleared(slot) ==
    /\ pending[slot].pc = "clearSession"
    /\ session' = NoPassword
    /\ Respond(slot, "lock", << >>, "", 0, << >>)
    /\ UNCHANGED << memory, vault, clock, history >>

\* reset up to await chrome.storage.local.remove.
startReset(slot) ==
    /\ pending[slot] = Idle
    /\ walletData' = NULL
    /\ pending' = [ pending EXCEPT ![slot] =
                       Handler("remove", "reset", << >>, NULL, << >>, "", << >>) ]
    /\ UNCHANGED << currentPassword, cachedKey, cachedSalt, vault, session, clock,
                    history, last >>

\* chrome.storage.local.remove of reset lands.
resetRemoved(slot) ==
    /\ pending[slot].pc = "remove"
    /\ vault' = NULL
    /\ changedSince' = "no"
    /\ restorable' = FALSE
    /\ everIssued' = {}
    /\ Respond(slot, "reset", << >>, "", 0, << >>)
    /\ UNCHANGED << memory, session, clock >>

\* create up to the first await inside save().
startCreate(slot, password) ==
    LET kp == generateWithMnemonic(0)
        wd == [ accounts |-> << NewAccount(0, DefaultName(1), kp) >>,
                nextAccountIndex |-> 1 ]
        account == PublicView(wd.accounts[1])
    IN  /\ pending[slot] = Idle
        /\ IF validatePassword(password) # ""
           THEN Rejects(slot, "create", << password >>, validatePassword(password), 0)
           ELSE /\ walletData' = wd
                /\ currentPassword' = password
                /\ changedSince' = "no"
                /\ restorable' = FALSE
                /\ everIssued' = { 0 }
                /\ pending' = [ pending EXCEPT ![slot] =
                                   Handler("save", "create", << password >>,
                                           encryptData(wd, password),
                                           << [ account |-> account, mnemonic |-> kp.mnemonic,
                                                privateKey |-> kp.privateKey ] >>,
                                           "", << >>) ]
                /\ UNCHANGED << cachedKey, cachedSalt, vault, session, clock, last >>

(* Specification of interleaved vault operations: a wallet of one account  *)
(* under PwA, locked or unlocked, with or without a cached key, and up to  *)
(* MaxInFlight requests of any kind handled at the same time.              *)

NextInterleaved ==
    \/ \E slot \in Slots, password \in GoodPasswords : startUnlock(slot, password)
    \/ \E slot \in Slots : unlockRead(slot)
    \/ \E slot \in Slots : unlockDecrypt(slot)
    \/ \E slot \in Slots : unlockLoaded(slot)
    \/ \E slot \in Slots : unlockActivity(slot)
    \/ \E slot \in Slots : unlockSession(slot)
    \/ \E slot \in Slots : unlockReturn(slot)
    \/ \E slot \in Slots : startLock(slot)
    \/ \E slot \in Slots : lockCleared(slot)
    \/ \E slot \in Slots : startReset(slot)
    \/ \E slot \in Slots : resetRemoved(slot)
    \/ \E slot \in Slots, password \in { PwB, PwWeak } : startCreate(slot, password)
    \/ \E slot \in Slots : startAddAccount(slot, "")
    \/ \E slot \in Slots : startRemoveAccount(slot, 0)
    \/ \E slot \in Slots : saveStored(slot)
    \/ \E slot \in Slots : startChangePassword(slot, PwA, PwB)
    \/ \E slot \in Slots : changePasswordVerified(slot)
    \/ \E slot \in Slots : changePasswordStored(slot)
    \/ \E slot \in Slots : changePasswordDone(slot)

SpecInterleaved == InitRace /\ [][NextInterleaved]_vars

\* C33: in every reachable state, under any interleaving of the vault
\* operations, a loaded record comes with a remembered password (isUnlocked
\* is true exactly when the record is present), and no save() fails for lack
\* of a password.
C33_RecordImpliesPassword ==
    /\ walletData # NULL => currentPassword # NoPassword
    /\ isUnlocked <=> walletData # NULL
    /\ \A slot \in Slots :
          pending[slot].err # "Cannot save: wallet not loaded or no password"

\* C33 witness: a lock was answered while an unlock was under way, and the
\* unlock has loaded the record since.
C33_Witness ==
    /\ walletData # NULL /\ currentPassword # NoPassword
    /\ \E s, t \in Slots :
          /\ Answered(s, "lock")
          /\ pending[t].op = "unlock" /\ pending[t].pc = "session"


-----------------------------------------------------------------------------
(* The key cache *)

\* C34: the cached key and the cached salt are both present or both absent,
\* and whenever they are present and the persisted blob carries the cached
\* salt, the cached key is the key the blob was encrypted with, so the
\* cached-key path of unlock and of session restore decrypts it.
C34_CacheIsValid ==
    /\ cachedKey = NULL <=> cachedSalt = NoSalt
    /\ (cachedKey # NULL /\ vault # NULL /\ cachedSalt = vault.salt)
          => /\ cachedKey = vault.key
             /\ decryptWithKey(vault, cachedKey).ok
             /\ UnlockOnce(NoPassword, cachedKey, cachedSalt, vault).ok

\* C34 witness: an unlock took the cached-key path on the blob the key was
\* cached for, after the blob had been re-encrypted at least once.
C34_Witness ==
    /\ last.op = "unlock" /\ last.fast /\ last.err = "" /\ last.kdf = 0
    /\ cachedKey # NULL /\ vault # NULL /\ cachedSalt = vault.salt
    /\ vault.salt # "s1"


-----------------------------------------------------------------------------
(* The password of the persisted blob *)

\* C35: the password that decrypts the persisted blob changes only through
\* a successful changePassword or a bootstrap (create, import,
\* importFromMnemonic): no unlock attempt, lock or account mutation changes
\* the password the blob is encrypted under.
C35_OnlyRekeyChangesPassword ==
    [][ ( /\ vault # NULL /\ vault' # NULL
          /\ last'.op \notin { "changePassword", "create", "import", "importFromMnemonic" } )
        => /\ vault'.key.password = vault.key.password
           /\ decryptData(vault', vault.key.password).ok ]_vars


-----------------------------------------------------------------------------
(* The idle-wallet specification: an unlocked wallet, the clock, the       *)
(* timeout setting and the handlers that read or use a private key.        *)

NextIdle ==
    \/ create(PwA)
    \/ unlock(PwA)
    \/ lock
    \/ updateActivity
    \/ \E minutes \in { 0, 1 } : setAutoLockTimeout(minutes)
    \/ getLockStatus
    \/ \E index \in 0 .. MaxSessionIndex : exportPrivateKey(index)
    \/ \E index \in 0 .. MaxSessionIndex : getPrivateKey(index)
    \/ BelowCap(MaxSessionIndex) /\ addAccount("")
    \/ tick(MaxTicks)

SpecIdle == Init /\ [][NextIdle]_vars

\* C36: once the auto-lock timeout has elapsed since the last recorded
\* activity (timeout not 0), every handler that releases or uses a private
\* key, and every account mutation, fails until the next successful unlock.
C36_IdleWalletReleasesNoKey ==
    [][ ( /\ last'.op \in { "exportPrivateKey", "getPrivateKey", "addAccount" }
          /\ now' = now
          /\ shouldAutoLock )
        => last'.err # "" ]_vars


-----------------------------------------------------------------------------
(* Bootstrapping over an existing vault *)

\* C37: create, import and importFromMnemonic never destroy an existing
\* vault: when a persisted blob exists the call fails and the persisted
\* blob, with its accounts, is unchanged.
C37_BootstrapKeepsExistingVault ==
    [][ ( /\ last'.op \in { "create", "import", "importFromMnemonic" }
          /\ vault # NULL )
        => /\ last'.err # ""
           /\ vault' = vault ]_vars


-----------------------------------------------------------------------------
(* Transactions sent for a dApp.  The active-account key of                *)
(* chrome.storage.local is written by SET_ACTIVE_ACCOUNT alone, with the   *)
(* index its caller sends and whatever the wallet holds; the handler is    *)
(* given the value it reads there (Undefined when none was stored).        *)

\* getActiveAccountIndex: result[ACTIVE_ACCOUNT] ?? 0
getActiveAccountIndex(stored) == IF stored = Undefined THEN 0 ELSE stored

\* array[i]: NULL (undefined) outside the array
ElementAt(array, i) == IF i \in 0 .. Len(array) - 1 THEN array[i + 1] ELSE NULL

\* DAPP_SEND_TRANSACTION.  The answer records what the handler read from
\* storage and the arguments it handed to TransactionBuilder.buildAndSign;
\* the signed transaction goes to OctraRPC.sendTransaction.
DAPP_SEND_TRANSACTION(stored, to, amount, balance, send) ==
    IF ~isUnlocked
    THEN Throws("DAPP_SEND_TRANSACTION", "Wallet is locked", 0, NoPassword)
    ELSE LET accounts == getAccounts(walletData)
             activeIndex == getActiveAccountIndex(stored)
             account == IF ElementAt(accounts, activeIndex) # NULL
                        THEN ElementAt(accounts, activeIndex)
                        ELSE ElementAt(accounts, 0)
             at == FindIndex(walletData.accounts, activeIndex)
         IN  IF account = NULL
             THEN Throws("DAPP_SEND_TRANSACTION", "No accounts available", 0, NoPassword)
             ELSE IF at = 0
             THEN Throws("DAPP_SEND_TRANSACTION", "Account not found", 0, NoPassword)
             ELSE IF balance.raised
             THEN Throws("DAPP_SEND_TRANSACTION", balance.message, 0, NoPassword)
             ELSE LET params == [ from |-> account.address, to |-> to, amount |-> amount,
                                  nonce |-> balance.nonce + 1, feeTier |-> "LOW",
                                  privateKey |-> walletData.accounts[at].privateKey,
                                  publicKey |-> walletData.accounts[at].publicKey ]
                      error == IF send.status = "accepted" THEN ""
                               ELSE IF send.error # "" THEN send.error
                               ELSE "Transaction failed"
                  IN  /\ last' = Outcome("DAPP_SEND_TRANSACTION", error, 0, FALSE,
                                         NoPassword, isUnlocked,
                                         << [ stored |-> stored, signed |-> params ] >>)
                      /\ UNCHANGED << memory, vault, session, clock, history, pending >>

\* What the stored active-account value can be.
StoredActiveAccounts == { Undefined } \cup 0 .. MaxIndex
\* What OctraRPC.getBalance does: the nonce it returns, or the error it throws.
DappBalances ==
    { [ raised |-> FALSE, message |-> "", nonce |-> 0 ],
      [ raised |-> TRUE, message |-> "Failed to fetch balance from network", nonce |-> 0 ] }

NextDapp ==
    \/ create(PwA)
    \/ unlock(PwA)
    \/ lock
    \/ BelowCap(MaxIndex) /\ addAccount("")
    \/ \E index \in 0 .. MaxIndex : removeAccount(index)
    \/ \E stored \in StoredActiveAccounts, balance \in DappBalances, send \in SendOutcomes :
            DAPP_SEND_TRANSACTION(stored, AddressB, Literal(1, 0), balance, send)

SpecDapp == Init /\ [][NextDapp]_vars

\* C38: a DAPP_SEND_TRANSACTION that succeeds signed with the key of the
\* account whose address it placed in the from field, for every stored
\* active-account value and every account list.
C38_SignerIsSender ==
    [][ (last'.op = "DAPP_SEND_TRANSACTION" /\ last'.err = "")
        => \E i \in 1 .. Len(walletData.accounts) :
              /\ walletData.accounts[i].address = last'.ret[1].signed.from
              /\ walletData.accounts[i].privateKey = last'.ret[1].signed.privateKey
              /\ walletData.accounts[i].publicKey = last'.ret[1].signed.publicKey ]_vars


-----------------------------------------------------------------------------
(* The UI wallet store: accounts and activeAccountIndex *)

\* accounts.filter(a => a.index !== index), and the active index taken from
\* the list as it was before the call.
storeRemoveAccount(state, index) ==
    [ accounts |-> SelectSeq(state.accounts, LAMBDA a : a.index # index),
      activeAccountIndex |->
          IF state.activeAccountIndex = index
          THEN IF ElementAt(state.accounts, 0) # NULL
               THEN ElementAt(state.accounts, 0).index
               ELSE 0
          ELSE state.activeAccountIndex ]

\* accounts.find(a => a.index === activeAccountIndex) ?? accounts[0]
useActiveAccount(state) ==
    LET at == FindIndex(state.accounts, state.activeAccountIndex)
    IN  IF at # 0 THEN state.accounts[at] ELSE ElementAt(state.accounts, 0)

callStoreRemoveAccount ==
    /\ last.op = "request" /\ last.pw.call = "store.removeAccount"
    /\ Called("store.removeAccount",
              << storeRemoveAccount(last.pw.state, last.pw.index),
                 useActiveAccount(storeRemoveAccount(last.pw.state, last.pw.index)) >>)

\* The account lists the vault hands to the store: indices in increasing
\* order, any of them removed; the active index is one of the list.
StoreAccount(index) == PublicView(NewAccount(index, DefaultName(index + 1), generate(index)))
RECURSIVE Ascending(_, _)
Ascending(indices, from) ==
    IF from > MaxIndex THEN << >>
    ELSE (IF from \in indices THEN << StoreAccount(from) >> ELSE << >>)
            \o Ascending(indices, from + 1)
StoreStates ==
    { [ accounts |-> Ascending(indices, 0), activeAccountIndex |-> active ] :
        indices \in SUBSET (0 .. MaxIndex) \ { {} }, active \in 0 .. MaxIndex }
StoreRequests ==
    { [ call |-> "store.removeAccount", state |-> st, index |-> index ] :
        st \in { x \in StoreStates :
                    x.activeAccountIndex \in { x.accounts[i].index : i \in 1 .. Len(x.accounts) } },
        index \in 0 .. MaxIndex }

InitStore ==
    /\ walletData = NULL
    /\ currentPassword = NoPassword
    /\ cachedKey = NULL
    /\ cachedSalt = NoSalt
    /\ vault = NULL
    /\ session = NoPassword
    /\ lastActivity = Undefined
    /\ autoLockTimeout = Undefined
    /\ now = MsPerMinute
    /\ changedSince = "no"
    /\ \E request \in StoreRequests :
           last = Outcome("request", "", 0, FALSE, request, FALSE, << >>)
    /\ restorable = FALSE
    /\ everIssued = {}
    /\ pending = NoRequests

NextStore == callStoreRemoveAccount

SpecStore == InitStore /\ [][NextStore]_vars

\* C39: after removeAccount(index) that leaves at least one account,
\* activeAccountIndex is the index of an account still in the list, and
\* removing an account that is not the active one leaves activeAccountIndex
\* unchanged.
C39_ActiveAccountStillPresent ==
    (last.op = "store.removeAccount" /\ Len(last.ret[1].accounts) >= 1)
        => /\ \E i \in 1 .. Len(last.ret[1].accounts) :
                 last.ret[1].accounts[i].index = last.ret[1].activeAccountIndex
           /\ last.pw.index # last.pw.state.activeAccountIndex
                 => last.ret[1].activeAccountIndex = last.pw.state.activeAccountIndex


-----------------------------------------------------------------------------
(* The injected provider.  A request of the page is a call of sendRequest: *)
(* its promise, its entry in pendingRequests and its timer.  pc is         *)
(* "waiting" while the promise is unsettled and "resolved" or "rejected"   *)
(* afterwards; local holds whether pendingRequests has the entry, the time *)
(* the timer is due (Undefined once it has run) and how many times         *)
(* resolve or reject was called.                                           *)

REQUEST_TIMEOUT == 60000

\* generateId: Date.now() and nine random characters; two requests do not
\* draw the same id.
generateId(slot) == ToString(now) \o "-" \o ToString(slot)

Requests == { slot \in Slots : pending[slot].op = "sendRequest" }

\* pendingRequests.has(id)
HasPending(id) ==
    \E slot \in Requests : pending[slot].args[1] = id /\ pending[slot].local.entry

\* The request whose entry pendingRequests.get(id) returns.
GetPending(id) ==
    CHOOSE slot \in Requests : pending[slot].args[1] = id /\ pending[slot].local.entry

\* pendingRequests.delete(id), then resolve or reject.
Settle(slot, pc, err, ret) ==
    [ pending[slot] EXCEPT !.pc = pc, !.err = err, !.ret = ret,
                           !.local = [ @ EXCEPT !.entry = FALSE, !.calls = @ + 1 ] ]

ProviderEvent(op, id) ==
    /\ last' = Outcome(op, "", 0, FALSE, id, isUnlocked, << >>)
    /\ UNCHANGED << memory, vault, session, clock, history >>

\* The time is capped: a request is created while its timer can still run.
sendRequest(slot, method) ==
    /\ pending[slot].pc = "idle"
    /\ now + REQUEST_TIMEOUT <= MaxTicks * MsPerMinute
    /\ LET id == generateId(slot)
       IN  /\ pending' = [ pending EXCEPT ![slot] =
                  Handler("waiting", "sendRequest", << id, method >>, NULL,
                          [ entry |-> TRUE, timer |-> now + REQUEST_TIMEOUT, calls |-> 0 ],
                          "", << >>) ]
           /\ ProviderEvent("sendRequest", id)

\* The window message listener on a message of type 'response'.
onResponse(id, success, data, error) ==
    /\ pending' = IF HasPending(id)
                  THEN [ pending EXCEPT ![GetPending(id)] =
                            IF success THEN Settle(GetPending(id), "resolved", "", << data >>)
                            ELSE Settle(GetPending(id), "rejected",
                                        IF error # "" THEN error ELSE "Unknown error", << >>) ]
                  ELSE pending
    /\ ProviderEvent("response", id)

\* A timer callback that rejects without looking the entry up.
onTimeout_unguarded(slot) ==
    /\ slot \in Requests
    /\ pending[slot].local.timer # Undefined
    /\ now >= pending[slot].local.timer
    /\ pending' = [ pending EXCEPT ![slot] =
                      [ Settle(slot, "rejected", "Request timeout", << >>)
                          EXCEPT !.local.timer = Undefined ] ]
    /\ ProviderEvent("timeout", pending[slot].args[1])

\* The callback of setTimeout(..., 60000).
onTimeout(slot) ==
    /\ slot \in Requests
    /\ pending[slot].local.timer # Undefined
    /\ now >= pending[slot].local.timer
    /\ pending' = [ pending EXCEPT ![slot] =
                      [ (IF HasPending(pending[slot].args[1])
                         THEN Settle(GetPending(pending[slot].args[1]), "rejected",
                                     "Request timeout", << >>)
                         ELSE pending[slot])
                          EXCEPT !.local.timer = Undefined ] ]
    /\ ProviderEvent("timeout", pending[slot].args[1])

\* The ids a response can carry: those of the requests and one of no request.
ResponseIds ==
    { pending[slot].args[1] : slot \in Requests } \cup { "0-0" }

\* The responses of the content script: a result or a failure.
Responses ==
    { [ success |-> TRUE, data |-> "data", error |-> "" ],
      [ success |-> FALSE, data |-> "", error |-> "User rejected" ] }

NextProvider ==
    \/ \E slot \in Slots : sendRequest(slot, "getBalance")
    \/ \E id \in ResponseIds, response \in Responses :
            onResponse(id, response.success, response.data, response.error)
    \/ \E slot \in Slots : onTimeout(slot)
    \/ tick(MaxTicks)

\* Time passes and the event loop runs the timers that are due.
SpecProvider ==
    /\ Init
    /\ [][NextProvider]_vars
    /\ WF_vars(tick(MaxTicks))
    /\ \A slot \in Slots : WF_vars(onTimeout(slot))

\* C40: every request created by sendRequest is settled exactly once, by
\* its matching response or by the timeout, whichever comes first, and its
\* entry leaves pendingRequests at that moment; a response after the
\* timeout, a duplicate response and a timeout after the response change
\* nothing.
C40_SettledExactlyOnce ==
    /\ [][ \A slot \in Slots :
            /\ pending'[slot].op = "sendRequest"
                  => /\ pending'[slot].local.calls <= 1
                     /\ pending'[slot].local.entry <=> pending'[slot].local.calls = 0
                     /\ pending'[slot].pc = "waiting" <=> pending'[slot].local.calls = 0
            /\ (pending[slot].pc = "waiting" /\ pending'[slot].pc # "waiting")
                  => \/ /\ last'.op = "response" /\ last'.pw = pending[slot].args[1]
                        /\ pending'[slot].err # "Request timeout"
                     \/ /\ last'.op = "timeout" /\ last'.pw = pending[slot].args[1]
                        /\ pending'[slot].pc = "rejected"
                        /\ pending'[slot].err = "Request timeout"
                        /\ now >= pending[slot].local.timer
            /\ pending[slot].pc \in { "resolved", "rejected" }
                  => /\ pending'[slot].pc = pending[slot].pc
                     /\ pending'[slot].err = pending[slot].err
                     /\ pending'[slot].ret = pending[slot].ret
                     /\ pending'[slot].local.calls = pending[slot].local.calls ]_vars
    /\ \A slot \in Slots :
            (pending[slot].pc = "waiting") ~> (pending[slot].pc \in { "resolved", "rejected" })

\* C40 witness: a request settled by its response, whose timer has since
\* run, next to a request rejected by its timeout after which a response
\* with its id arrived.
C40_Witness ==
    /\ last.op = "response"
    /\ \E a, b \in Slots :
          /\ pending[a].pc = "resolved" /\ pending[a].local.timer = Undefined
          /\ pending[a].local.calls = 1
          /\ pending[b].pc = "rejected" /\ pending[b].err = "Request timeout"
          /\ pending[b].local.calls = 1 /\ ~pending[b].local.entry
          /\ last.pw = pending[b].args[1]

====
